---- MODULE Spec2Model ----
(***************************************************************************)
(* Model of the estimation engine (src/src/lib/estimate.ts) and of the     *)
(* page handlers that edit the selections it is called with               *)
(* (src/src/app/[lang]/page.tsx).                                          *)
(*                                                                         *)
(* JavaScript numbers are modelled as exact rationals <<num, den>> in      *)
(* lowest terms with den > 0; NaN is <<0, 0>>.  A selection value is a     *)
(* record [t, n, s, a]: t is the JavaScript type tag ("undef", "num",     *)
(* "str", "arr"), n the number, s the string, a the array of strings.     *)
(* Strings of the model are identifiers, never numerals.                   *)
(***************************************************************************)
EXTENDS Integers, Sequences, FiniteSets, TLC

VARIABLES config, selections, result, visibleIds

vars == <<config, selections, result, visibleIds>>

(* ================== Numbers ================== *)

Abs(x) == IF x < 0 THEN -x ELSE x

RECURSIVE GCD(_, _)
GCD(a, b) == IF b = 0 THEN a ELSE GCD(b, a % b)

NaN == <<0, 0>>

isNaN(q) == q[2] = 0

\* the rational n/d in lowest terms, d # 0
Q(n, d) ==
  LET g == GCD(Abs(n), Abs(d))
      s == IF d < 0 THEN -1 ELSE 1
  IN  <<(s * n) \div g, (s * d) \div g>>

Num(n) == <<n, 1>>

Zero == Num(0)

One == Num(1)

QAdd(x, y) == IF isNaN(x) \/ isNaN(y) THEN NaN
              ELSE Q(x[1] * y[2] + y[1] * x[2], x[2] * y[2])

QMul(x, y) == IF isNaN(x) \/ isNaN(y) THEN NaN
              ELSE Q(x[1] * y[1], x[2] * y[2])

QLt(x, y) == ~isNaN(x) /\ ~isNaN(y) /\ x[1] * y[2] < y[1] * x[2]

\* x || 0 : NaN and 0 are falsy
OrZero(x) == IF isNaN(x) THEN Zero ELSE x

RECURSIVE Pow10(_)
Pow10(k) == IF k = 0 THEN 1 ELSE 10 * Pow10(k - 1)

\* Math.round(x) = floor(x + 1/2)
MathRound(x) == (2 * x[1] + x[2]) \div (2 * x[2])

MathCeilMutFloor(x) == x[1] \div x[2]

\* Math.ceil(x) = -floor(-x)
MathCeil(x) == -((-x[1]) \div x[2])

roundMutHalfDown(n, places) ==
  IF isNaN(n) THEN NaN
  ELSE Q(-MathRound(<<-n[1] * Pow10(places), n[2]>>), Pow10(places))

round(n, places) ==
  IF isNaN(n) THEN NaN
  ELSE Q(MathRound(<<n[1] * Pow10(places), n[2]>>), Pow10(places))

(* ================== Selection values ================== *)

Undef == [t |-> "undef", n |-> 0, s |-> "", a |-> <<>>]

NumV(k) == [t |-> "num", n |-> k, s |-> "", a |-> <<>>]

StrV(x) == [t |-> "str", n |-> 0, s |-> x, a |-> <<>>]

ArrV(xs) == [t |-> "arr", n |-> 0, s |-> "", a |-> xs]

\* v == null
isNull(v) == v.t = "undef"

\* a ?? b
Coalesce(a, b) == IF isNull(a) THEN b ELSE a

\* a === b, for operands of which at least one is a config scalar
StrictEq(a, b) == a.t \in {"num", "str"} /\ a = b

\* String(v), also the property key v is converted to in obj[v]: a string is itself, a
\* one-element array its element; numerals, "" and comma-joined arrays are "", which is
\* no key of an object and no code of a country in the model
propertyKey(v) ==
  CASE v.t = "str" -> v.s
    [] v.t = "arr" /\ Len(v.a) = 1 -> v.a[1]
    [] OTHER -> ""

\* names every plain object inherits from Object.prototype
ObjectPrototypeKeys ==
  {"constructor", "toString", "valueOf", "hasOwnProperty", "isPrototypeOf", "__proto__"}

\* Number(v)
ToNumber(v) ==
  CASE v.t = "num" -> Num(v.n)
    [] v.t = "arr" /\ Len(v.a) = 0 -> Zero
    [] OTHER -> NaN

(* ================== Consts & helpers ================== *)

ROLES == <<"design", "frontend", "backend", "pm", "qa", "devops", "seo", "content">>

BUILD_ROLES == <<"design", "frontend", "backend", "devops", "seo", "content">>

RoleSet == {ROLES[i] : i \in 1..Len(ROLES)}

BuildRoleSet == {BUILD_ROLES[i] : i \in 1..Len(BUILD_ROLES)}

\* {} as a Partial<Record<...>>
NoEntries == <<>>

cloneZerosMutOne == [r \in RoleSet |-> IF r = "seo" THEN One ELSE Zero]

cloneZeros == [r \in RoleSet |-> Zero]

clampMutNoMax(n, min, max) ==
  IF isNaN(n) THEN (IF isNull(min) THEN Zero ELSE Num(min.n))
  ELSE IF ~isNull(min) /\ QLt(n, Num(min.n)) THEN Num(min.n)
  ELSE n

clamp(n, min, max) ==
  IF isNaN(n) THEN (IF isNull(min) THEN Zero ELSE Num(min.n))
  ELSE IF ~isNull(min) /\ QLt(n, Num(min.n)) THEN Num(min.n)
  ELSE IF ~isNull(max) /\ QLt(Num(max.n), n) THEN Num(max.n)
  ELSE n

visibleForLever(lever, sel) ==
  \A i \in 1..Len(lever.visibleWhen) :
    StrictEq(sel.vals[lever.visibleWhen[i].id], lever.visibleWhen[i].equals)

addHoursMutNoFactor(target, add, factor) ==
  [r \in RoleSet |-> IF r \in DOMAIN add THEN QAdd(target[r], add[r]) ELSE target[r]]

addHours(target, add, factor) ==
  [r \in RoleSet |->
     IF r \in DOMAIN add THEN QAdd(target[r], QMul(add[r], factor)) ELSE target[r]]

applyMultiplierHours(hours, multipliers) ==
  LET allMul == IF "all" \in DOMAIN multipliers THEN multipliers["all"] ELSE One
  IN  [r \in RoleSet |->
         QMul(hours[r],
              QMul(IF r \in DOMAIN multipliers THEN multipliers[r] ELSE One, allMul))]

(* ---------- applyDependencies ---------- *)

MaxPasses == 6

\* the adjust loop of one dependency: st = [selections, hiddenIds, changed, passes],
\* passes being the number of passes begun
RECURSIVE applyAdjusts(_, _, _)
applyAdjusts(st, adjust, i) ==
  IF i > Len(adjust) THEN st
  ELSE IF ~StrictEq(st.selections.vals[adjust[i].id], adjust[i].set)
       THEN applyAdjusts([st EXCEPT !.selections.vals[adjust[i].id] = adjust[i].set,
                                    !.changed = TRUE], adjust, i + 1)
       ELSE applyAdjusts(st, adjust, i + 1)

applyDepMutNoHide(st, dep) ==
  IF StrictEq(st.selections.vals[dep.if.id], dep.if.equals)
  THEN applyAdjusts(st, dep.adjust, 1)
  ELSE st

\* one dependency of a pass
applyDep(st, dep) ==
  IF StrictEq(st.selections.vals[dep.if.id], dep.if.equals)
  THEN applyAdjusts([st EXCEPT !.hiddenIds = @ \cup dep.hide], dep.adjust, 1)
  ELSE st

\* the inner loop over config.dependencies
RECURSIVE depPass(_, _, _)
depPass(st, deps, i) ==
  IF i > Len(deps) THEN st ELSE depPass(applyDep(st, deps[i]), deps, i + 1)

RECURSIVE depPassesMutNoStop(_, _, _)
depPassesMutNoStop(st, deps, pass) ==
  IF pass >= MaxPasses THEN st
  ELSE depPassesMutNoStop(depPass([st EXCEPT !.changed = FALSE, !.passes = pass + 1],
                                  deps, 1),
                          deps, pass + 1)

RECURSIVE depPassesMutHiddenOfLastPass(_, _, _)
depPassesMutHiddenOfLastPass(st, deps, pass) ==
  IF pass >= MaxPasses THEN st
  ELSE LET after == depPass([st EXCEPT !.changed = FALSE, !.passes = pass + 1,
                                       !.hiddenIds = {}], deps, 1)
       IN  IF ~after.changed THEN after
           ELSE depPassesMutHiddenOfLastPass(after, deps, pass + 1)

\* the outer loop: at most MaxPasses passes, stopping after a pass without change
RECURSIVE depPasses(_, _, _)
depPasses(st, deps, pass) ==
  IF pass >= MaxPasses THEN st
  ELSE LET after == depPass([st EXCEPT !.changed = FALSE, !.passes = pass + 1], deps, 1)
       IN  IF ~after.changed THEN after ELSE depPasses(after, deps, pass + 1)

applyDependencies(cfg, baseSelections) ==
  LET st == depPasses([selections |-> baseSelections, hiddenIds |-> {},
                       changed |-> FALSE, passes |-> 0],
                      cfg.dependencies, 0)
  IN  [selections |-> st.selections, hiddenIds |-> st.hiddenIds]

(* ================== Core engine ================== *)

\* config.countries.find((c) => c.code === code), 0 when there is none
RECURSIVE findCountry(_, _, _)
findCountry(countries, code, i) ==
  IF i > Len(countries) THEN 0
  ELSE IF countries[i].code = code THEN i
  ELSE findCountry(countries, code, i + 1)

\* lever.options.find((o) => o.value === value), 0 when there is none
RECURSIVE findOption(_, _, _)
findOption(options, value, i) ==
  IF i > Len(options) THEN 0
  ELSE IF value.t = "str" /\ options[i].value = value.s THEN i
  ELSE findOption(options, value, i + 1)

countryOfMutFallbackLast(cfg, rawSelections) ==
  LET defaultCountry == cfg.countries[Len(cfg.countries)]
      countryCode == propertyKey(Coalesce(rawSelections.vals["_country"],
                                          StrV(defaultCountry.code)))
      i == findCountry(cfg.countries, countryCode, 1)
  IN  IF i = 0 THEN defaultCountry ELSE cfg.countries[i]

\* the country the estimate is made for
countryOf(cfg, rawSelections) ==
  LET defaultCountry == cfg.countries[1]
      countryCode == propertyKey(Coalesce(rawSelections.vals["_country"],
                                          StrV(defaultCountry.code)))
      i == findCountry(cfg.countries, countryCode, 1)
  IN  IF i = 0 THEN defaultCountry ELSE cfg.countries[i]

rateModeOf(cfg, rawSelections) ==
  Coalesce(rawSelections.vals["_rateMode"],
           Coalesce(cfg.defaultRateMode, StrV("country_roles")))

blendedRateOf(cfg, rawSelections) ==
  ToNumber(Coalesce(rawSelections.vals["_blendedRate"],
                    Coalesce(cfg.defaultBlendedRate, NumV(0))))

\* the loop that seeds lever defaults into a selections map
RECURSIVE seedLevers(_, _, _)
seedLevers(seeded, levers, i) ==
  IF i > Len(levers) THEN seeded
  ELSE LET l == levers[i]
           s1 == IF isNull(seeded.vals[l.id]) /\ ~isNull(l.default)
                 THEN [seeded EXCEPT !.vals[l.id] = l.default] ELSE seeded
           s2 == IF l.type = "multiselect" /\ isNull(s1.vals[l.id])
                 THEN [s1 EXCEPT !.vals[l.id] = ArrV(<<>>)] ELSE s1
       IN  seedLevers(s2, levers, i + 1)

\* the seeded selections of computeEstimate
seedEstimate(cfg, rawSelections) ==
  LET reserved ==
        [rawSelections EXCEPT
           !.vals["_country"] = Coalesce(@, StrV(countryOf(cfg, rawSelections).code)),
           !.vals["_rateMode"] = Coalesce(@, rateModeOf(cfg, rawSelections)),
           !.vals["_blendedRate"] =
              Coalesce(@, Coalesce(cfg.defaultBlendedRate, NumV(0)))]
  IN  seedLevers(reserved, cfg.levers, 1)

\* hours[role] += Number(opt[key]) || 0 for every "hours.<role>" key of an option
addOptionHours(hours, opt) ==
  [r \in RoleSet |->
     IF r \in DOMAIN opt.hours THEN QAdd(hours[r], OrZero(opt.hours[r])) ELSE hours[r]]

numberLeverHours(hours, lever, value) ==
  LET n == clamp(ToNumber(Coalesce(value, Coalesce(lever.default, NumV(0)))),
                 lever.min, lever.max)
      h1 == addHours(hours, lever.hoursPerUnit, n)
      h2 == addHours(h1, lever.hoursBase, One)
      h3 == IF QLt(One, n) THEN addHours(h2, lever.hoursPerExtraLocale, QAdd(n, Num(-1)))
            ELSE h2
      batchSize == lever.hoursPerBatch.batchSize
      batches == IF QLt(Zero, n) THEN Num(MathCeil(QMul(n, <<1, batchSize>>))) ELSE Zero
  IN  IF batchSize > 0 THEN addHours(h3, lever.hoursPerBatch.hours, batches) ELSE h3

selectLeverHoursMutNoFallback(hours, lever, value) ==
  LET i == findOption(lever.options, value, 1)
  IN  IF i > 0 THEN addOptionHours(hours, lever.options[i]) ELSE hours

selectLeverHours(hours, lever, value) ==
  LET i == findOption(lever.options, value, 1)
  IN  IF i > 0 THEN addOptionHours(hours, lever.options[i])
      ELSE IF Len(lever.options) > 0 THEN addOptionHours(hours, lever.options[1])
      ELSE hours

RECURSIVE multiselectLeverHours(_, _, _, _)
multiselectLeverHours(hours, lever, arr, k) ==
  IF k > Len(arr) THEN hours
  ELSE LET i == findOption(lever.options, StrV(arr[k]), 1)
       IN  multiselectLeverHours(
             IF i > 0 THEN addOptionHours(hours, lever.options[i]) ELSE hours,
             lever, arr, k + 1)

leverHoursMutIgnoreHidden(hours, lever, sel, hiddenIds) ==
  IF ~visibleForLever(lever, sel) THEN hours
  ELSE LET value == sel.vals[lever.id]
       IN  CASE lever.type = "number" -> numberLeverHours(hours, lever, value)
             [] lever.type = "select" -> selectLeverHours(hours, lever, value)
             [] OTHER ->
                  multiselectLeverHours(hours, lever,
                                        IF value.t = "arr" THEN value.a ELSE <<>>, 1)

\* the body of the hours loop for one lever
leverHours(hours, lever, sel, hiddenIds) ==
  IF lever.id \in hiddenIds \/ ~visibleForLever(lever, sel) THEN hours
  ELSE LET value == sel.vals[lever.id]
       IN  CASE lever.type = "number" -> numberLeverHours(hours, lever, value)
             [] lever.type = "select" -> selectLeverHours(hours, lever, value)
             [] OTHER ->
                  multiselectLeverHours(hours, lever,
                                        IF value.t = "arr" THEN value.a ELSE <<>>, 1)

RECURSIVE buildHours(_, _, _, _, _)
buildHours(hours, levers, sel, hiddenIds, i) ==
  IF i > Len(levers) THEN hours
  ELSE buildHours(leverHours(hours, levers[i], sel, hiddenIds), levers, sel, hiddenIds, i + 1)

addOptionMultipliersMutNaNZero(multipliers, opt) ==
  [k \in DOMAIN multipliers \cup DOMAIN opt.multiplier |->
     IF k \in DOMAIN opt.multiplier
     THEN QMul(IF k \in DOMAIN multipliers THEN multipliers[k] ELSE One,
               IF isNaN(opt.multiplier[k]) THEN Zero ELSE opt.multiplier[k])
     ELSE multipliers[k]]

\* multipliers[k] = (multipliers[k] ?? 1) * (isFinite(val) ? val : 1), every key of opt
addOptionMultipliers(multipliers, opt) ==
  [k \in DOMAIN multipliers \cup DOMAIN opt.multiplier |->
     IF k \in DOMAIN opt.multiplier
     THEN QMul(IF k \in DOMAIN multipliers THEN multipliers[k] ELSE One,
               IF isNaN(opt.multiplier[k]) THEN One ELSE opt.multiplier[k])
     ELSE multipliers[k]]

RECURSIVE multiselectLeverMultipliers(_, _, _, _)
multiselectLeverMultipliers(multipliers, lever, arr, k) ==
  IF k > Len(arr) THEN multipliers
  ELSE LET i == findOption(lever.options, StrV(arr[k]), 1)
       IN  multiselectLeverMultipliers(
             IF i > 0 THEN addOptionMultipliers(multipliers, lever.options[i])
             ELSE multipliers,
             lever, arr, k + 1)

\* the body of the multipliers loop for one lever
leverMultipliers(multipliers, lever, sel, hiddenIds) ==
  IF lever.id \in hiddenIds \/ ~visibleForLever(lever, sel) THEN multipliers
  ELSE LET value == sel.vals[lever.id]
       IN  CASE lever.type = "select" ->
                  LET i == findOption(lever.options, value, 1)
                  IN  IF i > 0 THEN addOptionMultipliers(multipliers, lever.options[i])
                      ELSE multipliers
             [] lever.type = "multiselect" ->
                  multiselectLeverMultipliers(multipliers, lever,
                                              IF value.t = "arr" THEN value.a ELSE <<>>, 1)
             [] OTHER -> multipliers

RECURSIVE collectMultipliers(_, _, _, _, _)
collectMultipliers(multipliers, levers, sel, hiddenIds, i) ==
  IF i > Len(levers) THEN multipliers
  ELSE collectMultipliers(leverMultipliers(multipliers, levers[i], sel, hiddenIds),
                          levers, sel, hiddenIds, i + 1)

adjustedHoursMutFloor(hours, roleAdjust, r) ==
  LET delta == IF r \in DOMAIN roleAdjust THEN roleAdjust[r] ELSE Zero
      sum == QAdd(hours[r], delta)
  IN  IF ~isNaN(delta) /\ delta # Zero
      THEN (IF QLt(sum, Zero) THEN Zero ELSE sum) ELSE hours[r]

\* the manual delta of one build role: Number(roleAdjust[r] ?? 0), added unless NaN or 0
adjustedHours(hours, roleAdjust, r) ==
  LET delta == IF r \in DOMAIN roleAdjust THEN roleAdjust[r] ELSE Zero
  IN  IF ~isNaN(delta) /\ delta # Zero THEN QAdd(hours[r], delta) ELSE hours[r]

applyRoleAdjustMutSkip(hours, roleAdjust) == hours

applyRoleAdjust(hours, roleAdjust) ==
  [r \in RoleSet |->
     IF r \in BuildRoleSet THEN adjustedHours(hours, roleAdjust, r) ELSE hours[r]]

\* reads the overrides, and takes a country's override map for the whole rate card
rateForMutOverrideCard(cfg, rawSelections, r) ==
  LET country == countryOf(cfg, rawSelections)
      rates == country.baseRates
      overrides == rawSelections.rateOverrides
  IN  IF rateModeOf(cfg, rawSelections) = StrV("blended")
      THEN blendedRateOf(cfg, rawSelections)
      ELSE IF country.code \in DOMAIN overrides
           THEN (IF r \in DOMAIN overrides[country.code]
                 THEN overrides[country.code][r] ELSE Zero)
           ELSE IF r \in DOMAIN rates THEN rates[r] ELSE Zero

rateFor(cfg, rawSelections, r) ==
  LET rates == countryOf(cfg, rawSelections).baseRates
  IN  IF rateModeOf(cfg, rawSelections) = StrV("blended")
      THEN blendedRateOf(cfg, rawSelections)
      ELSE IF r \in DOMAIN rates THEN rates[r] ELSE Zero

RECURSIVE sumBuildRolesMutAllRoles(_, _)
sumBuildRolesMutAllRoles(f, i) ==
  IF i > Len(ROLES) THEN Zero
  ELSE QAdd(f[ROLES[i]], sumBuildRolesMutAllRoles(f, i + 1))

\* BUILD_ROLES.reduce((sum, r) => sum + f[r], 0)
RECURSIVE sumBuildRoles(_, _)
sumBuildRoles(f, i) ==
  IF i > Len(BUILD_ROLES) THEN Zero
  ELSE QAdd(f[BUILD_ROLES[i]], sumBuildRoles(f, i + 1))

riskPctOfMutAlwaysFallback(cfg, sel) == <<3, 25>>

riskPctOfMutMedium(cfg, sel) ==
  LET riskLevel == propertyKey(Coalesce(sel.vals["risk_level"], StrV("medium")))
      bands == cfg.globalOverheads.contingencyRiskBands
  IN  IF riskLevel \in DOMAIN bands THEN bands[riskLevel] ELSE bands["medium"]

\* contingencyRiskBands[riskLevel] ?? 0.12: an own key gives its band; a name inherited
\* from Object.prototype gives that member, which is not nullish, and 1 + riskPct is
\* then no number (NaN)
riskPctOf(cfg, sel) ==
  LET riskLevel == propertyKey(Coalesce(sel.vals["risk_level"], StrV("medium")))
      bands == cfg.globalOverheads.contingencyRiskBands
  IN  IF riskLevel \in DOMAIN bands THEN bands[riskLevel]
      ELSE IF riskLevel \in ObjectPrototypeKeys THEN NaN
      ELSE <<3, 25>>

hoursPlacesOf(cfg) == Coalesce(cfg.rounding.hours, NumV(1)).n

moneyPlacesOf(cfg) == Coalesce(cfg.rounding.currency, NumV(0)).n

\* rounding and assembly of the numeric part of the result
roundedResult(hoursPlaces, moneyPlaces, hours, cost, subtotalHours, subtotalCost, pmHours, qaHours, pmCost, qaCost, p50HoursRaw, p50CostRaw, riskPct) ==
  [hoursByRole |->
     [r \in RoleSet |->
        round(IF r = "pm" THEN pmHours ELSE IF r = "qa" THEN qaHours ELSE hours[r],
              hoursPlaces)],
   costByRole |->
     [r \in RoleSet |->
        round(IF r = "pm" THEN pmCost ELSE IF r = "qa" THEN qaCost ELSE cost[r],
              moneyPlaces)],
   subtotalHours |-> round(subtotalHours, hoursPlaces),
   subtotalCost |-> round(subtotalCost, moneyPlaces),
   overheads |-> [pmHours |-> round(pmHours, hoursPlaces),
                  qaHours |-> round(qaHours, hoursPlaces),
                  pmCost |-> round(pmCost, moneyPlaces),
                  qaCost |-> round(qaCost, moneyPlaces)],
   p50 |-> [hours |-> round(p50HoursRaw, hoursPlaces),
            cost |-> round(p50CostRaw, moneyPlaces)],
   p80 |-> [hours |-> round(QMul(p50HoursRaw, QAdd(One, riskPct)), hoursPlaces),
            cost |-> round(QMul(p50CostRaw, QAdd(One, riskPct)), moneyPlaces)]]

bandsOfMutPaddedP50(cfg, hours, cost, subtotalHours, subtotalCost, pmHours, qaHours, pmCost, qaCost, riskPct) ==
  roundedResult(hoursPlacesOf(cfg), moneyPlacesOf(cfg), hours, cost,
                subtotalHours, subtotalCost, pmHours, qaHours, pmCost, qaCost,
                QMul(QAdd(QAdd(subtotalHours, pmHours), qaHours), QAdd(One, riskPct)),
                QMul(QAdd(QAdd(subtotalCost, pmCost), qaCost), QAdd(One, riskPct)),
                riskPct)

\* bands: p50 raw values from the subtotals and the overheads
bandsOf(cfg, hours, cost, subtotalHours, subtotalCost, pmHours, qaHours, pmCost, qaCost, riskPct) ==
  roundedResult(hoursPlacesOf(cfg), moneyPlacesOf(cfg), hours, cost,
                subtotalHours, subtotalCost, pmHours, qaHours, pmCost, qaCost,
                QAdd(QAdd(subtotalHours, pmHours), qaHours),
                QAdd(QAdd(subtotalCost, pmCost), qaCost),
                riskPct)

\* overheads: PM and QA hours and cost from the build subtotal
overheadsOf(cfg, hours, cost, rate, subtotalHours, subtotalCost, pmHours, qaHours, riskPct) ==
  bandsOf(cfg, hours, cost, subtotalHours, subtotalCost, pmHours, qaHours,
          QMul(pmHours, rate["pm"]), QMul(qaHours, rate["qa"]), riskPct)

\* subtotals over the build roles
subtotalsOf(cfg, hours, cost, rate, subtotalHours, riskPct) ==
  overheadsOf(cfg, hours, cost, rate, subtotalHours, sumBuildRoles(cost, 1),
              QMul(subtotalHours, cfg.globalOverheads.pmPercentOfBuild),
              QMul(subtotalHours, cfg.globalOverheads.qaPercentOfBuild), riskPct)

\* the numeric part of the result, from the hours after manual adjustment and the rates
totalsOf(cfg, hours, rate, riskPct) ==
  subtotalsOf(cfg, hours, [r \in RoleSet |-> QMul(hours[r], rate[r])], rate,
              sumBuildRoles(hours, 1), riskPct)

\* hours before manual adjustment: accumulation, then multipliers when there are any
multipliedHours(hours, multipliers) ==
  IF DOMAIN multipliers # {} THEN applyMultiplierHours(hours, multipliers) ELSE hours

\* the part of computeEstimate after the multipliers
estimateAdjusted(cfg, rawSelections, resolved, multipliers, preAdjust) ==
  totalsOf(cfg,
           [r \in RoleSet |->
              OrZero(applyRoleAdjust(preAdjust, resolved.selections.roleAdjust)[r])],
           [r \in RoleSet |-> rateFor(cfg, rawSelections, r)],
           riskPctOf(cfg, resolved.selections))
  @@ [currency |-> countryOf(cfg, rawSelections).currency,
      debug |-> [countryCode |-> countryOf(cfg, rawSelections).code,
                 hiddenLeverIds |-> resolved.hiddenIds,
                 appliedMultipliers |-> multipliers,
                 rateMode |-> rateModeOf(cfg, rawSelections),
                 preAdjustHours |-> preAdjust,
                 roleAdjust |-> resolved.selections.roleAdjust]]

\* the part of computeEstimate after the two lever loops
estimateMultiplied(cfg, rawSelections, resolved, accumulated, multipliers) ==
  estimateAdjusted(cfg, rawSelections, resolved, multipliers,
                   multipliedHours(accumulated, multipliers))

\* the part of computeEstimate after dependency resolution
estimateResolved(cfg, rawSelections, resolved) ==
  estimateMultiplied(cfg, rawSelections, resolved,
                     buildHours(cloneZeros, cfg.levers, resolved.selections,
                                resolved.hiddenIds, 1),
                     collectMultipliers(NoEntries, cfg.levers, resolved.selections,
                                        resolved.hiddenIds, 1))

computeEstimate(cfg, rawSelections) ==
  estimateResolved(cfg, rawSelections,
                   applyDependencies(cfg, seedEstimate(cfg, rawSelections)))

(* ================== UI helpers ================== *)

visibleLeverIdSet(cfg, rawSelections) ==
  LET resolved == applyDependencies(cfg, seedLevers(rawSelections, cfg.levers, 1))
  IN  {cfg.levers[i].id : i \in
         {j \in 1..Len(cfg.levers) :
            /\ cfg.levers[j].id \notin resolved.hiddenIds
            /\ visibleForLever(cfg.levers[j], resolved.selections)}}

\* the keys of a selections map other than _roleAdjust and _rateOverrides
Keys == {"_country", "_rateMode", "_blendedRate", "risk_level",
         "pages_unique", "cms_choice", "i18n_locales", "integrations", "seo_pack"}

\* cfg.presets.find((x) => x.id === id), 0 when there is none
RECURSIVE findPreset(_, _, _)
findPreset(presets, id, i) ==
  IF i > Len(presets) THEN 0
  ELSE IF presets[i].id = id THEN i
  ELSE findPreset(presets, id, i + 1)

\* { ...s, ...values }
mergeValues(s, values) ==
  [s EXCEPT !.vals = [k \in Keys |-> IF k \in DOMAIN values THEN values[k] ELSE @[k]]]

applyPresetMutValuesWin(cfg, current, presetId) ==
  LET p == findPreset(cfg.presets, presetId, 1)
  IN  IF p = 0 THEN current
      ELSE mergeValues([current EXCEPT !.vals["_country"] = StrV(cfg.presets[p].country)],
                       cfg.presets[p].values)

applyPreset(cfg, current, presetId) ==
  LET p == findPreset(cfg.presets, presetId, 1)
  IN  IF p = 0 THEN current
      ELSE [mergeValues(current, cfg.presets[p].values) EXCEPT
              !.vals["_country"] = StrV(cfg.presets[p].country)]

(* ---------- what a call leaves of the objects it was given ---------- *)

computeEstimateArgumentsMutSeedInPlace(cfg, rawSelections) ==
  [config |-> cfg, selections |-> seedEstimate(cfg, rawSelections)]

\* the config and selections objects given to computeEstimate, as the call leaves them:
\* it assigns to seeded, a copy of rawSelections, to the copies applyDependencies makes,
\* and to hours and multipliers, which it creates
computeEstimateArguments(cfg, rawSelections) ==
  [config |-> cfg, selections |-> rawSelections]

\* likewise for visibleLeverIdSet, which seeds a copy of rawSelections
visibleLeverIdSetArguments(cfg, rawSelections) ==
  [config |-> cfg, selections |-> rawSelections]

\* likewise for applyPreset, which spreads current into a new object
applyPresetArguments(cfg, current, presetId) ==
  [config |-> cfg, selections |-> current]

(* ================== Configurations ================== *)

\* a lever with none of the optional fields
Lever(id, type) ==
  [id |-> id, type |-> type, visibleWhen |-> <<>>, default |-> Undef,
   min |-> Undef, max |-> Undef,
   hoursPerUnit |-> NoEntries, hoursBase |-> NoEntries, hoursPerExtraLocale |-> NoEntries,
   hoursPerBatch |-> [batchSize |-> 0, hours |-> NoEntries],
   options |-> <<>>, maxSelected |-> 0]

Option(value, hours, multiplier) ==
  [value |-> value, hours |-> hours, multiplier |-> multiplier]

Dependency(id, equals, hide, adjust) ==
  [if |-> [id |-> id, equals |-> equals], hide |-> hide, adjust |-> adjust]

CountryUS ==
  [code |-> "US", currency |-> "USD",
   baseRates |-> [r \in RoleSet |-> IF r = "frontend" THEN Num(50) ELSE Zero]]

CountryUSFull ==
  [code |-> "US", currency |-> "USD",
   baseRates |-> [r \in RoleSet |->
                    CASE r = "frontend" -> Num(50) [] r = "backend" -> Num(60)
                      [] r = "pm" -> Num(40) [] r = "qa" -> Num(30) [] OTHER -> Num(45)]]

\* a country whose baseRates miss every role but frontend and pm
CountryNL ==
  [code |-> "NL", currency |-> "EUR",
   baseRates |-> ("frontend" :> Num(35)) @@ ("pm" :> Num(25))]

RiskLever ==
  [Lever("risk_level", "select") EXCEPT
     !.default = StrV("medium"),
     !.options = <<Option("low", NoEntries, NoEntries),
                   Option("medium", NoEntries, NoEntries),
                   Option("high", NoEntries, NoEntries)>>]

\* the configuration of the end-to-end scenario
CfgScenario ==
  [name |-> "scenario",
   countries |-> <<CountryUS>>,
   levers |-> <<[Lever("pages_unique", "number") EXCEPT
                   !.default = NumV(5),
                   !.hoursPerUnit = ("frontend" :> Num(2))]>>,
   dependencies |-> <<>>,
   globalOverheads |-> [pmPercentOfBuild |-> <<1, 10>>,
                        qaPercentOfBuild |-> <<1, 10>>,
                        contingencyRiskBands |-> ("medium" :> <<3, 25>>)],
   rounding |-> [hours |-> Undef, currency |-> Undef],
   allowBlendedRate |-> FALSE,
   defaultRateMode |-> Undef,
   defaultBlendedRate |-> Undef,
   presets |-> <<>>]

\* no levers at all
CfgEmpty ==
  [name |-> "empty",
   countries |-> <<CountryUSFull, CountryNL>>,
   levers |-> <<>>,
   dependencies |-> <<Dependency("_rateMode", StrV("blended"), {}, 
                                 <<[id |-> "risk_level", set |-> StrV("high")]>>)>>,
   globalOverheads |-> [pmPercentOfBuild |-> <<3, 20>>,
                        qaPercentOfBuild |-> <<1, 10>>,
                        contingencyRiskBands |->
                          ("low" :> <<1, 20>>) @@ ("medium" :> <<3, 20>>)
                            @@ ("high" :> <<1, 4>>)],
   rounding |-> [hours |-> NumV(1), currency |-> NumV(0)],
   allowBlendedRate |-> TRUE,
   defaultRateMode |-> StrV("country_roles"),
   defaultBlendedRate |-> NumV(85),
   presets |-> <<>>]

\* select, multiselect and number levers, multipliers, visibleWhen and dependencies
CfgSite ==
  [name |-> "site",
   countries |-> <<CountryUSFull, CountryNL>>,
   levers |->
     <<[Lever("cms_choice", "select") EXCEPT
          !.default = StrV("none"),
          !.options = <<Option("none", NoEntries, NoEntries),
                        Option("headless",
                               ("backend" :> Num(8)) @@ ("pm" :> Num(3)),
                               ("frontend" :> <<11, 10>>) @@ ("qa" :> Num(2))),
                        Option("wordpress", ("backend" :> <<17, 4>>), NoEntries)>>],
       [Lever("i18n_locales", "number") EXCEPT
          !.default = NumV(1), !.min = NumV(1), !.max = NumV(3),
          !.hoursBase = ("frontend" :> Num(1)),
          !.hoursPerExtraLocale = ("frontend" :> <<3, 2>>) @@ ("content" :> Num(1)),
          !.hoursPerBatch = [batchSize |-> 2, hours |-> ("design" :> <<1, 4>>)]],
       [Lever("integrations", "multiselect") EXCEPT
          !.maxSelected = 2,
          !.options = <<Option("crm", ("backend" :> Num(5)), ("all" :> <<11, 10>>)),
                        Option("pay", ("devops" :> Num(2)), ("frontend" :> NaN))>>],
       [Lever("seo_pack", "number") EXCEPT
          !.default = NumV(1),
          !.visibleWhen = <<[id |-> "_rateMode", equals |-> StrV("country_roles")]>>,
          !.hoursPerUnit = ("seo" :> <<5, 4>>)],
       RiskLever>>,
   dependencies |->
     <<Dependency("cms_choice", StrV("none"), {"integrations"},
                  <<[id |-> "i18n_locales", set |-> NumV(1)]>>),
       Dependency("cms_choice", StrV("wordpress"), {"seo_pack"},
                  <<[id |-> "cms_choice", set |-> StrV("headless")]>>)>>,
   globalOverheads |-> [pmPercentOfBuild |-> <<3, 20>>,
                        qaPercentOfBuild |-> <<1, 10>>,
                        contingencyRiskBands |->
                          ("low" :> <<1, 20>>) @@ ("medium" :> <<3, 20>>)
                            @@ ("high" :> <<1, 4>>)],
   rounding |-> [hours |-> NumV(1), currency |-> NumV(0)],
   allowBlendedRate |-> TRUE,
   defaultRateMode |-> Undef,
   defaultBlendedRate |-> Undef,
   presets |-> <<[id |-> "offerte_simple_website", country |-> "NL",
                  values |-> ("cms_choice" :> StrV("headless"))]>>]

\* one number lever billed per batch, the three risk bands, and a preset whose values
\* name another country than the preset itself
CfgBatch ==
  [name |-> "batch",
   countries |-> <<CountryUSFull, CountryNL>>,
   levers |-> <<[Lever("pages_unique", "number") EXCEPT
                   !.hoursPerBatch = [batchSize |-> 5, hours |-> ("frontend" :> Num(10))]]>>,
   dependencies |-> <<>>,
   globalOverheads |-> [pmPercentOfBuild |-> <<1, 10>>,
                        qaPercentOfBuild |-> <<1, 10>>,
                        contingencyRiskBands |->
                          ("low" :> <<1, 10>>) @@ ("medium" :> <<1, 5>>)
                            @@ ("high" :> <<3, 10>>)],
   rounding |-> [hours |-> NumV(1), currency |-> NumV(0)],
   allowBlendedRate |-> FALSE,
   defaultRateMode |-> Undef,
   defaultBlendedRate |-> Undef,
   presets |-> <<[id |-> "offerte_simple_website", country |-> "NL",
                  values |-> ("pages_unique" :> NumV(6)) @@ ("_country" :> StrV("US"))]>>]

ConfigList == <<CfgScenario, CfgEmpty, CfgSite>>

(* ================== The page ================== *)

SIMPLE_PRESET_ID == "offerte_simple_website"

Langs == {"en", "fr", "nl"}

DEFAULT_COUNTRY_BY_LANG == [l \in Langs |-> CASE l = "en" -> "US" [] l = "fr" -> "FR" [] OTHER -> "NL"]

EmptySelections ==
  [vals |-> [k \in Keys |-> Undef], roleAdjust |-> NoEntries, rateOverrides |-> NoEntries]

initialCountry(cfg, lang) ==
  LET i == findCountry(cfg.countries, DEFAULT_COUNTRY_BY_LANG[lang], 1)
  IN  IF i > 0 THEN cfg.countries[i].code ELSE cfg.countries[1].code

\* the loop of initialSelections over cfg.levers
RECURSIVE initialLevers(_, _, _)
initialLevers(s, levers, i) ==
  IF i > Len(levers) THEN s
  ELSE LET l == levers[i]
           s1 == IF ~isNull(l.default) THEN [s EXCEPT !.vals[l.id] = l.default] ELSE s
           s2 == IF l.type = "multiselect" /\ isNull(s1.vals[l.id])
                 THEN [s1 EXCEPT !.vals[l.id] = ArrV(<<>>)] ELSE s1
       IN  initialLevers(s2, levers, i + 1)

initialSelections(cfg, lang) ==
  LET base == [EmptySelections EXCEPT !.vals["_country"] = StrV(initialCountry(cfg, lang))]
      s == initialLevers(base, cfg.levers, 1)
      p == findPreset(cfg.presets, SIMPLE_PRESET_ID, 1)
  IN  IF p > 0 THEN mergeValues(s, cfg.presets[p].values) ELSE s

shallowEqual(a, b) ==
  \A k \in Keys :
    IF a.vals[k].t = "arr" /\ b.vals[k].t = "arr" THEN a.vals[k].a = b.vals[k].a
    ELSE a.vals[k] = b.vals[k]

applyDependenciesUI(cfg, base) ==
  LET st == depPasses([selections |-> base, hiddenIds |-> {},
                       changed |-> FALSE, passes |-> 0],
                      cfg.dependencies, 0)
  IN  [selections |-> st.selections, hidden |-> st.hiddenIds]

\* the dependency effect has nothing left to do
Synced(cfg, s) == shallowEqual(applyDependenciesUI(cfg, s).selections, s)

\* the onClick without the cut to maxSelected
toggleOptionMutNoCap(lever, s, value) ==
  LET curr == IF s.vals[lever.id].t = "arr" THEN s.vals[lever.id].a ELSE <<>>
      exists == \E i \in 1..Len(curr) : curr[i] = value
      next == IF exists THEN SelectSeq(curr, LAMBDA x : x # value)
              ELSE Append(curr, value)
  IN  [s EXCEPT !.vals[lever.id] = ArrV(next)]

\* the multiselect button's onClick
toggleOption(lever, s, value) ==
  LET curr == IF s.vals[lever.id].t = "arr" THEN s.vals[lever.id].a ELSE <<>>
      exists == \E i \in 1..Len(curr) : curr[i] = value
      next == IF exists THEN SelectSeq(curr, LAMBDA x : x # value)
              ELSE Append(curr, value)
      capped == IF lever.maxSelected > 0 /\ Len(next) > lever.maxSelected
                THEN SubSeq(next, 1, lever.maxSelected) ELSE next
  IN  [s EXCEPT !.vals[lever.id] = ArrV(capped)]

\* the role editor's stepper: { ...s, _roleAdjust: { ...(s._roleAdjust ?? {}), [role]: v } }
setRoleAdjust(s, role, v) ==
  [s EXCEPT !.roleAdjust =
     [r \in DOMAIN s.roleAdjust \cup {role} |-> IF r = role THEN v ELSE s.roleAdjust[r]]]

getCountryBaseRates(cfg, countryCode) ==
  LET i == findCountry(cfg.countries, countryCode, 1)
  IN  IF i > 0 THEN cfg.countries[i].baseRates ELSE cfg.countries[1].baseRates

\* s._rateOverrides?.[countryCode] ?? {}
countryOverrides(s, countryCode) ==
  IF countryCode \in DOMAIN s.rateOverrides THEN s.rateOverrides[countryCode] ELSE NoEntries

setRate(cfg, s, countryCode, role, v) ==
  LET baseRates == getCountryBaseRates(cfg, countryCode)
      base == IF role \in DOMAIN baseRates THEN baseRates[role] ELSE Zero
      val == IF isNaN(v) THEN base ELSE v
      old == countryOverrides(s, countryCode)
      nextCountry == IF val = base
                     THEN [r \in DOMAIN old \ {role} |-> old[r]]
                     ELSE [r \in DOMAIN old \cup {role} |-> IF r = role THEN val ELSE old[r]]
  IN  [s EXCEPT !.rateOverrides =
         [c \in DOMAIN s.rateOverrides \cup {countryCode} |->
            IF c = countryCode THEN nextCountry ELSE s.rateOverrides[c]]]

resetOverrides(s, countryCode) ==
  [s EXCEPT !.rateOverrides =
     [c \in DOMAIN s.rateOverrides \ {countryCode} |-> s.rateOverrides[c]]]

(* ================== State machine ================== *)

\* largest number typed into a number input
MaxInput == 2

\* number inputs: a negative entry, zero and the positive entries up to MaxInput
NumberInputs == (-1)..MaxInput

\* manual deltas entered in the role editor (hours)
DeltaInputs == {<<-49, 4>>, <<1, 2>>}

\* the role edited in the role editor
AdjustRoles == {"frontend"}

\* largest rate typed into the rate editor, in steps of 25
MaxRateSteps == 3

\* rates entered in the rate editor; NaN is an emptied input
RateInputs == {Num(25 * k) : k \in 2..MaxRateSteps} \cup {NaN}

\* the role edited in the rate editor
RateRoles == {"frontend"}

\* blended rates entered
BlendedInputs == {100}

\* _roleAdjust maps a caller may pass beside those the role editor builds
RawRoleAdjusts == <<NoEntries, ("pm" :> Num(5)) @@ ("qa" :> <<-3, 2>>)>>

\* the page's country state, which the country effect copies into _country
pageCountry(cfg, s) == Coalesce(s.vals["_country"], StrV(cfg.countries[1].code)).s

\* a render: the memoised estimate and visible lever ids of the new selections
Render(s) ==
  /\ selections' = s
  /\ result' = computeEstimate(config, s)
  /\ visibleIds' = visibleLeverIdSet(config, s)
  /\ UNCHANGED config

\* the engine called with no selections, or the page mounted in some language
Init ==
  /\ \E i \in 1..Len(ConfigList) : config = ConfigList[i]
  /\ \/ selections = EmptySelections
     \/ \E lang \in Langs : selections = initialSelections(config, lang)
  /\ result = computeEstimate(config, selections)
  /\ visibleIds = visibleLeverIdSet(config, selections)

\* the page mounted in some language, with the _roleAdjust map a caller passes
InitEditors ==
  /\ \E i \in 1..Len(ConfigList) : config = ConfigList[i]
  /\ \E j \in 1..Len(RawRoleAdjusts), lang \in Langs :
       selections = [initialSelections(config, lang) EXCEPT
                       !.roleAdjust = RawRoleAdjusts[j]]
  /\ result = computeEstimate(config, selections)
  /\ visibleIds = visibleLeverIdSet(config, selections)

\* the dependency effect
DependencySync ==
  LET adjusted == applyDependenciesUI(config, selections).selections
  IN  /\ ~shallowEqual(adjusted, selections)
      /\ Render(adjusted)

SetNumberLever ==
  \E i \in 1..Len(config.levers), v \in NumberInputs :
    LET lever == config.levers[i]
    IN  /\ Synced(config, selections)
        /\ lever.type = "number" /\ lever.id \in visibleIds
        /\ Render([selections EXCEPT
                     !.vals[lever.id] = NumV(clamp(Num(v), lever.min, lever.max)[1])])

SetSelectLever ==
  \E i \in 1..Len(config.levers) :
    LET lever == config.levers[i]
    IN  /\ Synced(config, selections)
        /\ lever.type = "select" /\ lever.id \in visibleIds
        /\ \E k \in 1..Len(lever.options) :
             Render([selections EXCEPT !.vals[lever.id] = StrV(lever.options[k].value)])

ToggleMultiselect ==
  \E i \in 1..Len(config.levers) :
    LET lever == config.levers[i]
    IN  /\ Synced(config, selections)
        /\ lever.type = "multiselect" /\ lever.id \in visibleIds
        /\ \E k \in 1..Len(lever.options) :
             Render(toggleOption(lever, selections, lever.options[k].value))

\* the country select and the effect that copies the country into the selections
SetCountry ==
  \E i \in 1..Len(config.countries) :
    /\ Synced(config, selections)
    /\ Render([selections EXCEPT !.vals["_country"] = StrV(config.countries[i].code)])

SetRateMode ==
  \E v \in {"country_roles", "blended"} :
    /\ Synced(config, selections)
    /\ config.allowBlendedRate
    /\ Render([selections EXCEPT !.vals["_rateMode"] = StrV(v)])

SetBlendedRate ==
  \E v \in BlendedInputs :
    /\ Synced(config, selections)
    /\ config.allowBlendedRate
    /\ rateModeOf(config, selections) = StrV("blended")
    /\ Render([selections EXCEPT !.vals["_blendedRate"] = NumV(v)])

SetRoleAdjust ==
  \E role \in AdjustRoles, v \in DeltaInputs :
    /\ Synced(config, selections)
    /\ Render(setRoleAdjust(selections, role, v))

ResetRoleAdjust ==
  /\ Synced(config, selections)
  /\ Render([selections EXCEPT !.roleAdjust = NoEntries])

SetRate ==
  \E role \in RateRoles, v \in RateInputs :
    /\ Synced(config, selections)
    /\ Render(setRate(config, selections, pageCountry(config, selections), role, v))

ResetOverrides ==
  /\ Synced(config, selections)
  /\ Render(resetOverrides(selections, pageCountry(config, selections)))

\* the levers of the page
Next ==
  \/ DependencySync
  \/ SetNumberLever
  \/ SetSelectLever
  \/ ToggleMultiselect
  \/ SetRateMode

Spec == Init /\ [][Next]_vars

\* the role editor, the rate editor and the pricing controls
NextEditors ==
  \/ DependencySync
  \/ SetCountry
  \/ SetRateMode
  \/ SetBlendedRate
  \/ SetRoleAdjust
  \/ ResetRoleAdjust
  \/ SetRate
  \/ ResetOverrides

SpecEditors == InitEditors /\ [][NextEditors]_vars

(* ---------- callers of the engine's exported functions ---------- *)

\* largest number of units a caller passes for a number lever
MaxUnits == 6

\* the selection keys a caller sets
CallKeys == {"pages_unique", "risk_level", "_country"}

\* the values a caller passes for a key: absent, in range, out of range, unknown
CallValues(k) ==
  CASE k = "pages_unique" -> {Undef} \cup {NumV(n) : n \in (-1)..MaxUnits}
    [] k = "risk_level" ->
         {Undef, StrV("low"), StrV("medium"), StrV("high"), StrV("extreme"),
          StrV("constructor")}
    [] OTHER -> {Undef, StrV("US"), StrV("NL"), StrV("FR")}

\* the preset ids a caller passes: a preset of the config and an unknown id
PresetInputs == {SIMPLE_PRESET_ID, "unknown_preset"}

InitCalls ==
  /\ config = CfgBatch
  /\ selections = EmptySelections
  /\ result = computeEstimate(config, selections)
  /\ visibleIds = visibleLeverIdSet(config, selections)

\* a caller passes selections that differ in one key from the previous ones
CallWithSelection ==
  \E k \in CallKeys : \E v \in CallValues(k) :
    Render([selections EXCEPT !.vals[k] = v])

\* a caller applies a preset and goes on with the selections applyPreset returned
CallApplyPreset ==
  \E id \in PresetInputs : Render(applyPreset(config, selections, id))

NextCalls ==
  \/ CallWithSelection
  \/ CallApplyPreset

SpecCalls == InitCalls /\ [][NextCalls]_vars

(* ---------- callers of the engine with any dependency list ---------- *)

\* two levers, and the dependency list given
CfgDeps(deps) ==
  [name |-> "deps",
   countries |-> <<CountryUSFull>>,
   levers |->
     <<[Lever("cms_choice", "select") EXCEPT
          !.options = <<Option("none", NoEntries, NoEntries),
                        Option("headless", ("backend" :> Num(8)), NoEntries)>>],
       [Lever("seo_pack", "number") EXCEPT
          !.default = NumV(1), !.hoursPerUnit = ("seo" :> <<5, 4>>)]>>,
   dependencies |-> deps,
   globalOverheads |-> [pmPercentOfBuild |-> <<3, 20>>,
                        qaPercentOfBuild |-> <<1, 10>>,
                        contingencyRiskBands |->
                          ("low" :> <<1, 20>>) @@ ("medium" :> <<3, 20>>)
                            @@ ("high" :> <<1, 4>>)],
   rounding |-> [hours |-> NumV(1), currency |-> NumV(0)],
   allowBlendedRate |-> FALSE,
   defaultRateMode |-> Undef,
   defaultBlendedRate |-> Undef,
   presets |-> <<>>]

\* longest dependency list
MaxDeps == 2

\* the conditions and the forced values of the rules: <<id, value>>
DepConditions == {<<"cms_choice", "none">>, <<"cms_choice", "headless">>, <<"seo_pack", "off">>}

DepAdjusts == {<<"cms_choice", "none">>, <<"cms_choice", "headless">>, <<"seo_pack", "off">>}

\* the rules: if <id> equals <value>, hide the adjusted lever and force its value
DepRules ==
  {Dependency(c[1], StrV(c[2]), {a[1]}, <<[id |-> a[1], set |-> StrV(a[2])]>>) :
     c \in DepConditions, a \in DepAdjusts}

\* every list of at most MaxDeps rules, in every order, cyclic and contradictory ones
\* included
DepLists == UNION {[1..n -> DepRules] : n \in 0..MaxDeps}

\* the values a caller passes for the two levers
ChoiceValues(k) ==
  IF k = "cms_choice" THEN {Undef, StrV("none"), StrV("headless")}
  ELSE {Undef, StrV("off"), NumV(2)}

InitDeps ==
  /\ \E deps \in DepLists : config = CfgDeps(deps)
  /\ selections = EmptySelections
  /\ result = computeEstimate(config, selections)
  /\ visibleIds = visibleLeverIdSet(config, selections)

\* a caller passes selections that differ in one lever from the previous ones
CallWithChoice ==
  \E k \in {"cms_choice", "seo_pack"} : \E v \in ChoiceValues(k) :
    Render([selections EXCEPT !.vals[k] = v])

NextDeps == CallWithChoice

SpecDeps == InitDeps /\ [][NextDeps]_vars

(* ---------- a page whose selections hold any value ---------- *)

\* largest number of units a number lever is given, above and below zero
MaxPages == 3

\* a select whose options all carry multipliers, a multiselect of three options of which
\* two may be selected, a number lever with every kind of hour rule and no range, and a
\* number lever with a range
CfgOptions ==
  [name |-> "options",
   countries |-> <<CountryUSFull>>,
   levers |->
     <<[Lever("cms_choice", "select") EXCEPT
          !.options = <<Option("wordpress", ("backend" :> Num(4)), ("all" :> <<3, 2>>)),
                        Option("headless", ("backend" :> Num(8)),
                               ("frontend" :> <<11, 10>>))>>],
       [Lever("integrations", "multiselect") EXCEPT
          !.maxSelected = 2,
          !.options = <<Option("crm", ("backend" :> Num(5)), ("all" :> <<11, 10>>)),
                        Option("pay", ("devops" :> Num(2)), NoEntries),
                        Option("erp", ("design" :> Num(3)), NoEntries)>>],
       [Lever("pages_unique", "number") EXCEPT
          !.hoursPerUnit = ("frontend" :> Num(2)),
          !.hoursBase = ("design" :> Num(1)),
          !.hoursPerExtraLocale = ("content" :> <<1, 2>>),
          !.hoursPerBatch = [batchSize |-> 2, hours |-> ("frontend" :> Num(3))]],
       [Lever("i18n_locales", "number") EXCEPT
          !.min = NumV(1), !.max = NumV(3),
          !.hoursPerUnit = ("content" :> Num(1))]>>,
   dependencies |-> <<>>,
   globalOverheads |-> [pmPercentOfBuild |-> <<1, 10>>,
                        qaPercentOfBuild |-> <<1, 10>>,
                        contingencyRiskBands |->
                          ("low" :> <<1, 10>>) @@ ("medium" :> <<1, 5>>)
                            @@ ("high" :> <<3, 10>>)],
   rounding |-> [hours |-> NumV(1), currency |-> NumV(0)],
   allowBlendedRate |-> FALSE,
   defaultRateMode |-> Undef,
   defaultBlendedRate |-> Undef,
   presets |-> <<>>]

InitOptions ==
  /\ config = CfgOptions
  /\ selections = EmptySelections
  /\ result = computeEstimate(config, selections)
  /\ visibleIds = visibleLeverIdSet(config, selections)

\* the selections are replaced by ones that differ in one lever, which may hold any
\* value: absent, an option, no option, a number in or out of range, no number
SetLeverValue ==
  \E k \in {"cms_choice", "integrations", "pages_unique", "i18n_locales"} :
    \E v \in (CASE k = "cms_choice" ->
                     {Undef, StrV("wordpress"), StrV("headless"), StrV("joomla")}
                [] k = "integrations" ->
                     {Undef, ArrV(<<>>), ArrV(<<"ghost">>), StrV("crm")}
                [] k = "pages_unique" ->
                     {Undef, StrV("many")} \cup {NumV(n) : n \in (-MaxPages)..MaxPages}
                [] OTHER -> {Undef, NumV(0), NumV(2), NumV(5), StrV("x")}) :
      Render([selections EXCEPT !.vals[k] = v])

SpecOptions == InitOptions /\ [][SetLeverValue \/ ToggleMultiselect]_vars

(* ---------- the page's dependency effect with long and cyclic rule lists ---------- *)

\* longest dependency list
MaxRules == 7

\* chains of rules over distinct keys (if key i is "on", set key i + 1 to "on") and rings
\* of rules over the values of one key (if cms_choice is value i, set it to the next
\* value, the last to the first), each listed in the order of its steps and in reverse
SyncLists ==
  LET chainKeys == <<"cms_choice", "seo_pack", "pages_unique", "i18n_locales",
                     "integrations", "risk_level", "_blendedRate", "_rateMode", "_country">>
      ringValues == <<"none", "headless", "wordpress", "drupal", "joomla", "ghost",
                      "hugo", "astro", "kirby">>
      link(i) == Dependency(chainKeys[i], StrV("on"), {chainKeys[i + 1]},
                            <<[id |-> chainKeys[i + 1], set |-> StrV("on")]>>)
      turn(i, m) == Dependency("cms_choice", StrV(ringValues[i]), {},
                               <<[id |-> "cms_choice",
                                  set |-> StrV(ringValues[(i % m) + 1])]>>)
      lengths == {n \in 0..MaxRules : n < Len(chainKeys)}
  IN  UNION {{[i \in 1..n |-> link(i)], [i \in 1..n |-> link(n + 1 - i)]} : n \in lengths}
        \cup
      UNION {{[i \in 1..m |-> turn(i, m)], [i \in 1..m |-> turn(m + 1 - i, m)]} :
               m \in lengths \ {0, 1}}

InitSync ==
  /\ \E deps \in SyncLists : config = CfgDeps(deps)
  /\ selections = EmptySelections
  /\ result = computeEstimate(config, selections)
  /\ visibleIds = visibleLeverIdSet(config, selections)

\* a lever of the page is cleared, or set to "on" or to a value a rule names, once the
\* dependency effect has nothing left to do
ChangeSelection ==
  \E k \in {"cms_choice", "seo_pack"} :
    \E v \in {Undef, StrV("on")} \cup
             {config.dependencies[i].if.equals : i \in 1..Len(config.dependencies)} :
      /\ Synced(config, selections)
      /\ Render([selections EXCEPT !.vals[k] = v])

\* the page with its dependency effect, which React runs after every render in which the
\* selections changed
SpecSync == InitSync /\ [][ChangeSelection \/ DependencySync]_vars

(* ================== Claims ================== *)

\* the lever ids computeEstimate treats as visible: those its two lever loops do not skip
engineVisibleIds(cfg, rawSelections) ==
  LET resolved == applyDependencies(cfg, seedEstimate(cfg, rawSelections))
  IN  {cfg.levers[i].id : i \in
         {j \in 1..Len(cfg.levers) :
            /\ cfg.levers[j].id \notin resolved.hiddenIds
            /\ visibleForLever(cfg.levers[j], resolved.selections)}}

\* C1: in the end-to-end scenario (one number lever pages_unique with hoursPerUnit
\* frontend 2 and default 5, country US with frontend rate 50 and every other rate 0,
\* PM and QA 10 %, medium risk 12 %, default rounding) computeEstimate with no user
\* selections returns frontend hours 10, subtotal 10, PM 1 h, QA 1 h, p50 12 h and 500,
\* p80 13.4 h.
C1_EndToEnd ==
  (config.name = "scenario" /\ selections = EmptySelections) =>
     /\ result.hoursByRole["frontend"] = Num(10)
     /\ result.subtotalHours = Num(10)
     /\ result.overheads.pmHours = Num(1)
     /\ result.overheads.qaHours = Num(1)
     /\ result.p50.hours = Num(12)
     /\ result.p50.cost = Num(500)
     /\ result.p80.hours = <<67, 5>>

C1_Witness ==
  /\ config.name = "scenario"
  /\ selections = EmptySelections
  /\ result.debug.countryCode = "US"
  /\ result.debug.preAdjustHours["frontend"] = Num(10)

\* C2: dependency resolution is idempotent: applyDependencies run on the selections it
\* returned yields the same selections and the same hiddenIds as the first run.
C2_Idempotent ==
  LET first == applyDependencies(config, selections)
      second == applyDependencies(config, first.selections)
  IN  /\ second.selections = first.selections
      /\ second.hiddenIds = first.hiddenIds

\* C3: visibleLeverIdSet returns exactly the lever ids that computeEstimate treats as
\* visible, for every config and raw selections, also when rules refer to reserved keys
\* (_country, _rateMode, _blendedRate) that the selections do not contain.
C3_SameVisibility ==
  visibleIds = engineVisibleIds(config, selections)

\* C8: hours are never negative after accumulation and multipliers: with non-negative
\* declared hour amounts and multipliers, every entry of debug.preAdjustHours is >= 0
\* for every selection map, including negative values on number levers without a min.
C8_PreAdjustNonNegative ==
  \A r \in RoleSet : ~QLt(result.debug.preAdjustHours[r], Zero)

\* the cost figures of a result
costsOf(res) ==
  [costByRole |-> res.costByRole, subtotalCost |-> res.subtotalCost,
   pmCost |-> res.overheads.pmCost, qaCost |-> res.overheads.qaCost,
   p50 |-> res.p50.cost, p80 |-> res.p80.cost]

\* the hours and cost figures of a result outside its debug trace
figuresOf(res) ==
  [hoursByRole |-> res.hoursByRole, subtotalHours |-> res.subtotalHours,
   overheads |-> res.overheads, p50 |-> res.p50, p80 |-> res.p80,
   costs |-> costsOf(res)]

\* the manual delta a result reports for a role, 0 when there is none
deltaOf(res, r) ==
  IF r \in DOMAIN res.debug.roleAdjust THEN res.debug.roleAdjust[r] ELSE Zero

\* the unrounded hours of a build role: the snapshot plus the manual delta
unroundedHours(res, r) == QAdd(res.debug.preAdjustHours[r], deltaOf(res, r))

\* the rate the claim C4 names: the selected country's override, else its base rate, else 0
claimedRate(cfg, s, r) ==
  LET country == countryOf(cfg, s)
      overrides == countryOverrides(s, country.code)
  IN  IF r \in DOMAIN overrides THEN overrides[r]
      ELSE IF r \in DOMAIN country.baseRates THEN country.baseRates[r] ELSE Zero

\* C4: the hourly rate of a role is the user override _rateOverrides[country.code][role]
\* when present, else the country's baseRates[role], else 0, so that with an override the
\* role's cost is hours x override (role rates in use, that is outside blended mode).
C4_OverrideUsed ==
  rateModeOf(config, selections) # StrV("blended") =>
    \A r \in BuildRoleSet :
      result.costByRole[r] =
        round(QMul(unroundedHours(result, r), claimedRate(config, selections, r)),
              moneyPlacesOf(config))

\* C5: country override round trip: from any selections, setting a rate override for a
\* role of the selected country and then removing it (deleting the role's entry, or
\* resetting the country's overrides) gives an estimate whose costs equal those of the
\* estimate before the override was set.
C5_OverrideRoundTrip ==
  \A role \in RoleSet, v \in RateInputs :
    LET code == pageCountry(config, selections)
        base == IF role \in DOMAIN getCountryBaseRates(config, code)
                THEN getCountryBaseRates(config, code)[role] ELSE Zero
        withOverride == setRate(config, selections, code, role, v)
    IN  /\ costsOf(computeEstimate(config, setRate(config, withOverride, code, role, base)))
             = costsOf(result)
        /\ costsOf(computeEstimate(config, resetOverrides(withOverride, code)))
             = costsOf(result)

\* an override was set and removed again: the country's override map is there and empty
C5_Witness ==
  /\ pageCountry(config, selections) \in DOMAIN selections.rateOverrides
  /\ selections.rateOverrides[pageCountry(config, selections)] = NoEntries
  /\ result.p50.cost # Zero

\* C6: additivity of manual deltas: for every build role the reported hours are
\* round(debug.preAdjustHours[r] + _roleAdjust[r], hoursPrecision), without clamping,
\* also when the sum is below zero; and debug.preAdjustHours does not depend on
\* _roleAdjust.
C6_DeltaAdditive ==
  /\ \A r \in BuildRoleSet :
       result.hoursByRole[r] = round(unroundedHours(result, r), hoursPlacesOf(config))
  /\ result.debug.roleAdjust = selections.roleAdjust
  /\ result.debug.preAdjustHours =
       computeEstimate(config, [selections EXCEPT !.roleAdjust = NoEntries])
         .debug.preAdjustHours

\* a negative delta has driven a role's hours below zero
C6_Witness ==
  /\ "frontend" \in DOMAIN selections.roleAdjust
  /\ QLt(selections.roleAdjust["frontend"], Zero)
  /\ QLt(result.hoursByRole["frontend"], Zero)
  /\ QLt(Zero, result.debug.preAdjustHours["frontend"])

\* a Partial<Record<Role, number>> without its pm and qa entries
withoutOverheadRoles(m) == [r \in DOMAIN m \ {"pm", "qa"} |-> m[r]]

\* a config whose levers and options declare no pm or qa hours
withoutOverheadHours(cfg) ==
  [cfg EXCEPT !.levers =
     [i \in 1..Len(cfg.levers) |->
        [cfg.levers[i] EXCEPT
           !.hoursPerUnit = withoutOverheadRoles(@),
           !.hoursBase = withoutOverheadRoles(@),
           !.hoursPerExtraLocale = withoutOverheadRoles(@),
           !.hoursPerBatch.hours = withoutOverheadRoles(@),
           !.options =
              [k \in 1..Len(cfg.levers[i].options) |->
                 [cfg.levers[i].options[k] EXCEPT !.hours = withoutOverheadRoles(@)]]]]]

\* the estimate of the same call with every pm and qa hour input taken away
estimateWithoutOverheadInputs ==
  computeEstimate(withoutOverheadHours(config),
                  [selections EXCEPT !.roleAdjust = withoutOverheadRoles(@)])

\* hoursByRole and costByRole of pm and qa are the overheads block's values
OverheadRolesAreOverheads ==
  /\ result.hoursByRole["pm"] = result.overheads.pmHours
  /\ result.hoursByRole["qa"] = result.overheads.qaHours
  /\ result.costByRole["pm"] = result.overheads.pmCost
  /\ result.costByRole["qa"] = result.overheads.qaCost

C9_AllRolesAndZeros ==
  /\ DOMAIN result.hoursByRole = RoleSet
  /\ DOMAIN result.costByRole = RoleSet
  /\ \A r \in RoleSet : ~isNaN(result.hoursByRole[r]) /\ ~isNaN(result.costByRole[r])
  /\ (Len(config.levers) = 0 /\ selections.roleAdjust = NoEntries) =>
        /\ \A r \in RoleSet : result.hoursByRole[r] = Zero /\ result.costByRole[r] = Zero
        /\ result.subtotalHours = Zero /\ result.subtotalCost = Zero
        /\ \A f \in DOMAIN result.overheads : result.overheads[f] = Zero
        /\ result.p50 = [hours |-> Zero, cost |-> Zero]
        /\ result.p80 = [hours |-> Zero, cost |-> Zero]
        /\ \A r \in RoleSet : result.debug.preAdjustHours[r] = Zero

\* no levers, no deltas, a blended rate and the risk level a dependency forces
C9_Witness ==
  /\ Len(config.levers) = 0
  /\ selections.roleAdjust = NoEntries
  /\ result.debug.rateMode = StrV("blended")
  /\ selections.vals["_blendedRate"] = NumV(100)
  /\ result.p80.cost = Zero

\* the risk level the estimate uses, when it is one of the config's bands
riskLevelUsed(cfg, s) ==
  Coalesce(applyDependencies(cfg, seedEstimate(cfg, s)).selections.vals["risk_level"],
           StrV("medium"))

supportedRisk(cfg, s) ==
  /\ riskLevelUsed(cfg, s).t = "str"
  /\ riskLevelUsed(cfg, s).s \in
       {"low", "medium", "high"} \cap DOMAIN cfg.globalOverheads.contingencyRiskBands

\* 1 + contingencyRiskBands[risk_level]
riskFactor(cfg, s) ==
  QAdd(One, cfg.globalOverheads.contingencyRiskBands[riskLevelUsed(cfg, s).s])

\* the unrounded p50 hours: the build subtotal plus the PM and QA shares of it
unroundedP50Hours(cfg, res) ==
  LET S == sumBuildRoles([r \in RoleSet |-> unroundedHours(res, r)], 1)
  IN  QAdd(QAdd(S, QMul(S, cfg.globalOverheads.pmPercentOfBuild)),
           QMul(S, cfg.globalOverheads.qaPercentOfBuild))

\* the unrounded p50 cost: build cost plus PM and QA cost
unroundedP50Cost(cfg, s, res) ==
  LET S == sumBuildRoles([r \in RoleSet |-> unroundedHours(res, r)], 1)
      C == sumBuildRoles([r \in RoleSet |->
                            QMul(unroundedHours(res, r), rateFor(cfg, s, r))], 1)
  IN  QAdd(QAdd(C, QMul(QMul(S, cfg.globalOverheads.pmPercentOfBuild),
                        rateFor(cfg, s, "pm"))),
           QMul(QMul(S, cfg.globalOverheads.qaPercentOfBuild), rateFor(cfg, s, "qa")))

\* C10 (as claimed): for each supported risk level p80.hours equals
\* round(p50.hours x (1 + riskPct), hoursPrecision) with p50.hours the value reported in
\* the same result, and p80.cost likewise from the reported p50.cost.
C10_P80FromReportedP50 ==
  supportedRisk(config, selections) =>
    /\ result.p80.hours =
         round(QMul(result.p50.hours, riskFactor(config, selections)), hoursPlacesOf(config))
    /\ result.p80.cost =
         round(QMul(result.p50.cost, riskFactor(config, selections)), moneyPlacesOf(config))

\* C10 (amended): for each supported risk level p80.hours equals
\* round(P x (1 + riskPct), hoursPrecision) where P is the unrounded p50 hours (build
\* subtotal plus PM and QA hours, before rounding), not the rounded p50.hours of the
\* result; p80.cost is round(unrounded p50 cost x (1 + riskPct), currencyPrecision).
C10_P80FromUnroundedP50 ==
  supportedRisk(config, selections) =>
    /\ result.p80.hours =
         round(QMul(unroundedP50Hours(config, result), riskFactor(config, selections)),
               hoursPlacesOf(config))
    /\ result.p80.cost =
         round(QMul(unroundedP50Cost(config, selections, result),
                    riskFactor(config, selections)),
               moneyPlacesOf(config))

\* a high-risk estimate whose p50 hours were changed by rounding
C10_Witness ==
  /\ riskLevelUsed(config, selections) = StrV("high")
  /\ result.p50.hours # unroundedP50Hours(config, result)
  /\ result.p80.hours # result.p50.hours

\* the unrounded build subtotal: the six build roles' hours after the manual deltas
buildSubtotalHours(res) == sumBuildRoles([r \in RoleSet |-> unroundedHours(res, r)], 1)

\* C11: overhead derivation: overheads.pmHours = round(H x pmPercentOfBuild,
\* hoursPrecision) and overheads.qaHours = round(H x qaPercentOfBuild, hoursPrecision),
\* H being the sum of the six build roles' hours after the manual deltas, and pmCost and
\* qaCost are those (unrounded) hours times the pm and qa rate, rounded to the currency
\* precision.
C11_OverheadDerivation ==
  /\ result.overheads.pmHours =
       round(QMul(buildSubtotalHours(result), config.globalOverheads.pmPercentOfBuild),
             hoursPlacesOf(config))
  /\ result.overheads.qaHours =
       round(QMul(buildSubtotalHours(result), config.globalOverheads.qaPercentOfBuild),
             hoursPlacesOf(config))
  /\ result.overheads.pmCost =
       round(QMul(QMul(buildSubtotalHours(result), config.globalOverheads.pmPercentOfBuild),
                  rateFor(config, selections, "pm")),
             moneyPlacesOf(config))
  /\ result.overheads.qaCost =
       round(QMul(QMul(buildSubtotalHours(result), config.globalOverheads.qaPercentOfBuild),
                  rateFor(config, selections, "qa")),
             moneyPlacesOf(config))

\* a manual delta on a build role has changed the PM hours and their cost
C11_Witness ==
  /\ deltaOf(result, "frontend") # Zero
  /\ result.overheads.pmHours #
       computeEstimate(config, [selections EXCEPT !.roleAdjust = NoEntries]).overheads.pmHours
  /\ QLt(Zero, result.overheads.pmCost)
  /\ QLt(Zero, result.overheads.qaCost)

\* the effective risk_level is no key of the config's contingencyRiskBands
unrecognizedRisk(cfg, s) ==
  ~(riskLevelUsed(cfg, s).t = "str"
    /\ riskLevelUsed(cfg, s).s \in DOMAIN cfg.globalOverheads.contingencyRiskBands)

\* p80 as the result would report it with the risk percentage pct
p80With(cfg, s, res, pct) ==
  [hours |-> round(QMul(unroundedP50Hours(cfg, res), QAdd(One, pct)), hoursPlacesOf(cfg)),
   cost |-> round(QMul(unroundedP50Cost(cfg, s, res), QAdd(One, pct)), moneyPlacesOf(cfg))]

\* C12: when the effective risk_level is no key of contingencyRiskBands (an unrecognized
\* level) the risk percentage used for p80 is the fixed 12 %, and when risk_level is
\* absent the band of "medium" is used.
C12_FallbackTwelvePercent ==
  /\ unrecognizedRisk(config, selections) =>
       result.p80 = p80With(config, selections, result, <<3, 25>>)
  /\ isNull(selections.vals["risk_level"]) =>
       result.p80 = p80With(config, selections, result,
                            config.globalOverheads.contingencyRiskBands["medium"])

\* the selections with another risk_level
withRisk(s, level) == [s EXCEPT !.vals["risk_level"] = StrV(level)]

\* the config with another medium band
withMediumBand(cfg, pct) ==
  [cfg EXCEPT !.globalOverheads.contingencyRiskBands["medium"] = pct]

\* C13 (as claimed): an unrecognized risk_level falls back to the medium-risk
\* percentage: computeEstimate returns the same p80 as with risk_level = "medium",
\* whatever value the config gives contingencyRiskBands.medium.
C13_FallbackToMedium ==
  unrecognizedRisk(config, selections) =>
    result.p80 = computeEstimate(config, withRisk(selections, "medium")).p80

\* C13 (amended): an unrecognized risk_level that is no name inherited from
\* Object.prototype falls back to the fixed 12 %, not to the config's medium band:
\* computeEstimate returns the p80 it returns with risk_level = "medium" under the config
\* whose contingencyRiskBands.medium is 0.12.
C13_FallbackToFixedPct ==
  (unrecognizedRisk(config, selections)
   /\ propertyKey(riskLevelUsed(config, selections)) \notin ObjectPrototypeKeys) =>
    result.p80 =
      computeEstimate(withMediumBand(config, <<3, 25>>), withRisk(selections, "medium")).p80

\* an unrecognized level whose p80 is not the p80 of the medium band
C13_Witness ==
  /\ riskLevelUsed(config, selections) = StrV("extreme")
  /\ QLt(Zero, result.p50.hours)
  /\ result.p80 # computeEstimate(config, withRisk(selections, "medium")).p80
  /\ result.p80.hours = round(QMul(result.p50.hours, <<28, 25>>), hoursPlacesOf(config))

\* the first number lever with a hoursPerBatch rule, 0 when there is none
RECURSIVE batchLever(_, _)
batchLever(levers, i) ==
  IF i > Len(levers) THEN 0
  ELSE IF levers[i].type = "number" /\ levers[i].hoursPerBatch.batchSize > 0 THEN i
  ELSE batchLever(levers, i + 1)

\* n units rounded up to whole batches of b units
wholeBatches(n, b) == ((n + b - 1) \div b) * b

\* C14: monotonic batch rounding: for a number lever with a hoursPerBatch rule of
\* batchSize b > 0 the hours of n >= 1 units equal the hours of ceil(n/b) x b units
\* (batchSize 5 and 10 h per batch: 1..5 units give 10 h, 6 units give 20 h), and
\* n <= 0 units give no batch hours.
C14_BatchRounding ==
  LET i == batchLever(config.levers, 1)
      lever == config.levers[i]
      value == selections.vals[lever.id]
      b == lever.hoursPerBatch.batchSize
      pre == result.debug.preAdjustHours
  IN  (i > 0 /\ value.t = "num") =>
        /\ value.n >= 1 =>
             pre = computeEstimate(config,
                     [selections EXCEPT !.vals[lever.id] = NumV(wholeBatches(value.n, b))])
                   .debug.preAdjustHours
        /\ value.n <= 0 => pre = cloneZeros
        /\ (config.name = "batch" /\ value.n \in 1..5) => pre["frontend"] = Num(10)
        /\ (config.name = "batch" /\ value.n = 6) => pre["frontend"] = Num(20)

\* six units with batches of five: a second batch is billed
C14_Witness ==
  /\ config.name = "batch"
  /\ selections.vals["pages_unique"] = NumV(6)
  /\ result.debug.preAdjustHours["frontend"] = Num(20)
  /\ result.hoursByRole["frontend"] = Num(20)

\* the selections and hidden ids computeEstimate works with
engineResolved(cfg, rawSelections) ==
  applyDependencies(cfg, seedEstimate(cfg, rawSelections))

\* the option is the selected one of a select lever, or among those of a multiselect
optionSelected(lever, opt, sel) ==
  LET value == sel.vals[lever.id]
  IN  CASE lever.type = "select" -> value = StrV(opt.value)
        [] lever.type = "multiselect" ->
             value.t = "arr" /\ \E k \in 1..Len(value.a) : value.a[k] = opt.value
        [] OTHER -> FALSE

\* what one multiplier key of an option contributes: its value, 1 when absent or
\* not finite
keyFactor(opt, key) ==
  IF key \in DOMAIN opt.multiplier /\ ~isNaN(opt.multiplier[key])
  THEN opt.multiplier[key] ELSE One

\* the product over the options k.. of a lever of their multiplier.<r> and multiplier.all
RECURSIVE optionsFactor(_, _, _, _)
optionsFactor(lever, sel, r, k) ==
  IF k > Len(lever.options) THEN One
  ELSE QMul(IF optionSelected(lever, lever.options[k], sel)
            THEN QMul(keyFactor(lever.options[k], r), keyFactor(lever.options[k], "all"))
            ELSE One,
            optionsFactor(lever, sel, r, k + 1))

\* the product over the visible levers i.. of their selected options' factors
RECURSIVE roleFactor(_, _, _, _)
roleFactor(cfg, resolved, r, i) ==
  IF i > Len(cfg.levers) THEN One
  ELSE QMul(IF cfg.levers[i].id \notin resolved.hiddenIds
               /\ visibleForLever(cfg.levers[i], resolved.selections)
            THEN optionsFactor(cfg.levers[i], resolved.selections, r, 1)
            ELSE One,
            roleFactor(cfg, resolved, r, i + 1))

\* the hours the levers accumulate, before any multiplier
accumulatedHours(cfg, resolved) ==
  buildHours(cloneZeros, cfg.levers, resolved.selections, resolved.hiddenIds, 1)

\* C15: multiplier composition: the hours of a role before manual adjustment are its
\* accumulated hours times the product of every multiplier.<role> and every
\* multiplier.all value on the selected options of visible select and multiselect
\* levers (1.1 and 1.1 give x1.21); a non-finite value counts as 1, and without any
\* multiplier key the accumulated hours are unchanged.
C15_MultiplierProduct ==
  \A r \in RoleSet :
    result.debug.preAdjustHours[r] =
      QMul(accumulatedHours(config, engineResolved(config, selections))[r],
           roleFactor(config, engineResolved(config, selections), r, 1))

\* two selected options with 1.1 each and one with a non-finite frontend multiplier
C15_Witness ==
  /\ selections.vals["cms_choice"] = StrV("headless")
  /\ selections.vals["integrations"] = ArrV(<<"crm", "pay">>)
  /\ roleFactor(config, engineResolved(config, selections), "frontend", 1) = <<121, 100>>
  /\ QLt(Zero, accumulatedHours(config, engineResolved(config, selections))["frontend"])
  /\ result.hoursByRole["frontend"] # Zero

\* the indices of the config's presets with the id
presetsWithId(cfg, id) == {i \in 1..Len(cfg.presets) : cfg.presets[i].id = id}

\* what the claim C16 says of the selections applyPreset returns for a known preset
presetApplied(preset, current, next) ==
  /\ \A k \in DOMAIN preset.values \ {"_country"} : next.vals[k] = preset.values[k]
  /\ next.vals["_country"] = StrV(preset.country)
  /\ \A k \in Keys \ (DOMAIN preset.values \cup {"_country"}) :
       next.vals[k] = current.vals[k]
  /\ next.roleAdjust = current.roleAdjust
  /\ next.rateOverrides = current.rateOverrides

\* C16: applyPreset returns the input selections unchanged when presetId matches no
\* preset; for a known preset every key of the preset's values holds the preset's value,
\* _country is the preset's country (even if the values contain another _country), and
\* every other key of the current selections is kept.
C16_ApplyPreset ==
  \A id \in PresetInputs :
    IF presetsWithId(config, id) = {}
    THEN applyPreset(config, selections, id) = selections
    ELSE \E i \in presetsWithId(config, id) :
           /\ \A j \in presetsWithId(config, id) : i <= j
           /\ presetApplied(config.presets[i], selections,
                            applyPreset(config, selections, id))

\* the preset was applied over selections with a risk level and another country
C16_Witness ==
  /\ selections.vals["pages_unique"] = NumV(6)
  /\ selections.vals["_country"] = StrV("NL")
  /\ selections.vals["risk_level"] = StrV("high")
  /\ applyPreset(config, selections, SIMPLE_PRESET_ID) = selections
  /\ result.debug.countryCode = "NL"

\* the state in which applyDependencies leaves its loop, for the selections
\* computeEstimate seeds
resolutionEnd(cfg, rawSelections) ==
  depPasses([selections |-> seedEstimate(cfg, rawSelections), hiddenIds |-> {},
             changed |-> FALSE, passes |-> 0],
            cfg.dependencies, 0)

\* the dependency is enforced in what applyDependencies returned
enforced(dep, resolved) ==
  StrictEq(resolved.selections.vals[dep.if.id], dep.if.equals) =>
    /\ dep.hide \subseteq resolved.hiddenIds
    /\ \A j \in 1..Len(dep.adjust) :
         resolved.selections.vals[dep.adjust[j].id] = dep.adjust[j].set

\* C17 (as claimed): after applyDependencies returns, every dependency whose `if`
\* condition holds on the returned selections has all its hide ids in hiddenIds and
\* every adjust target equal to the forced value, whatever the user had selected.
C17_DependenciesEnforced ==
  \A i \in 1..Len(config.dependencies) :
    enforced(config.dependencies[i], engineResolved(config, selections))

\* C17 (amended): when applyDependencies returns after a pass in which no adjust changed
\* a selection (the resolution converged within its 6 passes), every dependency whose
\* `if` condition holds on the returned selections has all its hide ids in hiddenIds and
\* every adjust target equal to the forced value, whatever the user had selected; with
\* cyclic or contradictory rules the sixth pass still changes a selection and the
\* returned selections can violate a rule.
C17_EnforcedWhenConverged ==
  ~resolutionEnd(config, selections).changed =>
    \A i \in 1..Len(config.dependencies) :
      enforced(config.dependencies[i], engineResolved(config, selections))

\* a rule overrode the user's choice, and the rule that follows from the forced value
\* was applied as well
C17_Witness ==
  /\ Len(config.dependencies) = 2
  /\ selections.vals["cms_choice"] = StrV("none")
  /\ selections.vals["seo_pack"] = NumV(2)
  /\ ~resolutionEnd(config, selections).changed
  /\ resolutionEnd(config, selections).passes > 1
  /\ engineResolved(config, selections).selections.vals["cms_choice"] = StrV("headless")
  /\ engineResolved(config, selections).selections.vals["seo_pack"] = StrV("off")
  /\ engineResolved(config, selections).hiddenIds = {"cms_choice", "seo_pack"}

\* the state after k passes over the dependencies, without any cap
RECURSIVE nthPass(_, _, _)
nthPass(cfg, rawSelections, k) ==
  IF k = 0
  THEN [selections |-> seedEstimate(cfg, rawSelections), hiddenIds |-> {},
        changed |-> FALSE, passes |-> 0]
  ELSE depPass([nthPass(cfg, rawSelections, k - 1) EXCEPT
                  !.changed = FALSE, !.passes = k],
               cfg.dependencies, 1)

\* C20: applyDependencies terminates for every dependency list, cyclic and
\* contradictory ones included: it makes at most 6 passes over the list, stops after
\* the first pass in which no adjust changed a selection, and returns the selections and
\* hidden ids of its last pass.
C20_AtMostSixPasses ==
  /\ resolutionEnd(config, selections).passes \in 1..6
  /\ \A k \in 1..(resolutionEnd(config, selections).passes - 1) :
       nthPass(config, selections, k).changed
  /\ resolutionEnd(config, selections).passes < 6 =>
       ~resolutionEnd(config, selections).changed
  /\ resolutionEnd(config, selections) =
       nthPass(config, selections, resolutionEnd(config, selections).passes)
  /\ engineResolved(config, selections).selections =
       resolutionEnd(config, selections).selections
  /\ result.debug.hiddenLeverIds = resolutionEnd(config, selections).hiddenIds

\* a cyclic or contradictory list: the sixth pass still changed a selection
C20_Witness ==
  /\ resolutionEnd(config, selections).passes = 6
  /\ resolutionEnd(config, selections).changed
  /\ Len(config.dependencies) = 2

\* the indices of the config's countries whose code is the selections' _country
countriesSelected(cfg, s) ==
  {i \in 1..Len(cfg.countries) : s.vals["_country"] = StrV(cfg.countries[i].code)}

\* the result was made with the country: its code, its currency and its rates
madeWith(cfg, res, country) ==
  /\ res.debug.countryCode = country.code
  /\ res.currency = country.currency
  /\ \A r \in BuildRoleSet :
       res.costByRole[r] =
         round(QMul(unroundedHours(res, r),
                    IF r \in DOMAIN country.baseRates THEN country.baseRates[r] ELSE Zero),
               moneyPlacesOf(cfg))

\* C18: the country used for rates and currency is the config country whose code equals
\* selections._country, and the first entry of config.countries when _country is absent
\* or matches no country; debug.countryCode is always the code of a config country.
C18_CountryLookup ==
  /\ IF countriesSelected(config, selections) = {}
     THEN madeWith(config, result, config.countries[1])
     ELSE \E i \in countriesSelected(config, selections) :
            madeWith(config, result, config.countries[i])
  /\ \E i \in 1..Len(config.countries) :
       result.debug.countryCode = config.countries[i].code

\* a _country that matches no country: the first country's rates are charged
C18_Witness ==
  /\ selections.vals["_country"] = StrV("FR")
  /\ result.debug.countryCode = "US"
  /\ result.currency = "USD"
  /\ result.costByRole["frontend"] = Num(500)

withoutContributions(cfg, ids) ==
  [cfg EXCEPT !.levers =
     [i \in 1..Len(cfg.levers) |->
        IF cfg.levers[i].id \notin ids THEN cfg.levers[i]
        ELSE [cfg.levers[i] EXCEPT
                !.hoursPerUnit = NoEntries,
                !.hoursBase = NoEntries,
                !.hoursPerExtraLocale = NoEntries,
                !.hoursPerBatch = [batchSize |-> 0, hours |-> NoEntries],
                !.options =
                   [k \in 1..Len(cfg.levers[i].options) |->
                      Option(cfg.levers[i].options[k].value, NoEntries, NoEntries)]]]]

\* C21: a lever whose id is in the resolver's hiddenIds, or one of whose visibleWhen
\* rules does not hold on the resolved selections, contributes neither hours nor
\* multipliers: the result is the one of a config in which these levers declare none.
\* A lever in hiddenIds is among them even when all its visibleWhen rules hold.
C21_SkippedLeversContributeNothing ==
  LET resolved == engineResolved(config, selections)
      skipped == {config.levers[i].id : i \in
                    {j \in 1..Len(config.levers) :
                       \/ config.levers[j].id \in resolved.hiddenIds
                       \/ ~visibleForLever(config.levers[j], resolved.selections)}}
  IN  /\ resolved.hiddenIds = result.debug.hiddenLeverIds
      /\ result = computeEstimate(withoutContributions(config, skipped), selections)

\* seo_pack, which declares seo hours per unit, is hidden by a dependency while its
\* visibleWhen rule holds and two units of it are selected
C21_Witness ==
  /\ "seo_pack" \in result.debug.hiddenLeverIds
  /\ \E i \in 1..Len(config.levers) :
       /\ config.levers[i].id = "seo_pack"
       /\ Len(config.levers[i].visibleWhen) > 0
       /\ visibleForLever(config.levers[i], engineResolved(config, selections).selections)
       /\ "seo" \in DOMAIN config.levers[i].hoursPerUnit
  /\ selections.vals["seo_pack"] = NumV(2)
  /\ result.hoursByRole["seo"] = Zero


\* C22: for a select lever the multipliers are collected from the option whose hours are
\* accumulated: the option matching the current value, or the first option of the list
\* when the value matches no option (also without selection and default). Stated on
\* the resolved selections in which every select lever holds the value of that option.
C22_MultipliersOfHoursOption ==
  LET resolved == engineResolved(config, selections)
      unmatched(k) ==
        \E i \in 1..Len(config.levers) :
          /\ config.levers[i].id = k /\ config.levers[i].type = "select"
          /\ Len(config.levers[i].options) > 0
          /\ findOption(config.levers[i].options, resolved.selections.vals[k], 1) = 0
      firstOption(k) ==
        (CHOOSE l \in {config.levers[i] : i \in 1..Len(config.levers)} :
           l.id = k).options[1]
      hoursOptionsSelected ==
        [resolved.selections EXCEPT !.vals =
           [k \in Keys |->
              IF unmatched(k) THEN StrV(firstOption(k).value)
              ELSE resolved.selections.vals[k]]]
  IN  /\ accumulatedHours(config, resolved) =
           buildHours(cloneZeros, config.levers, hoursOptionsSelected,
                      resolved.hiddenIds, 1)
      /\ result.debug.appliedMultipliers =
           collectMultipliers(NoEntries, config.levers, hoursOptionsSelected,
                              resolved.hiddenIds, 1)


\* C23 (as claimed): for a visible number lever, n is the selection value clamped into
\* [min, max] (a value that is no number becomes min, or 0 without min), and the lever
\* adds per role hoursPerUnit x n, hoursBase once, hoursPerExtraLocale x (n - 1) when
\* n > 1, and ceil(n / batchSize) x the per-batch hours when batchSize > 0, all summed.
C23_NumberLeverHours ==
  LET resolved == engineResolved(config, selections)
      numberIds == {config.levers[i].id : i \in
                      {j \in 1..Len(config.levers) : config.levers[j].type = "number"}}
      others == buildHours(cloneZeros, withoutContributions(config, numberIds).levers,
                           resolved.selections, resolved.hiddenIds, 1)
      units(lever) ==
        LET x == ToNumber(Coalesce(resolved.selections.vals[lever.id],
                                   Coalesce(lever.default, NumV(0))))
            low == IF isNull(lever.min) THEN Zero ELSE Num(lever.min.n)
            atLeast == IF ~isNull(lever.min) /\ QLt(x, Num(lever.min.n))
                       THEN Num(lever.min.n) ELSE x
        IN  IF isNaN(x) THEN low
            ELSE IF ~isNull(lever.max) /\ QLt(Num(lever.max.n), atLeast)
                 THEN Num(lever.max.n) ELSE atLeast
      entry(m, r) == IF r \in DOMAIN m THEN m[r] ELSE Zero
      contribution(lever, r) ==
        LET n == units(lever)
            batchSize == lever.hoursPerBatch.batchSize
        IN  QAdd(QAdd(QMul(entry(lever.hoursPerUnit, r), n),
                      QAdd(entry(lever.hoursBase, r),
                           IF QLt(One, n)
                           THEN QMul(entry(lever.hoursPerExtraLocale, r), QAdd(n, Num(-1)))
                           ELSE Zero)),
                 IF batchSize > 0 /\ (TRUE)
                 THEN QMul(entry(lever.hoursPerBatch.hours, r),
                           Num(MathCeil(QMul(n, <<1, batchSize>>))))
                 ELSE Zero)
      RECURSIVE total(_, _)
      total(r, i) ==
        IF i > Len(config.levers) THEN Zero
        ELSE QAdd(IF /\ config.levers[i].type = "number"
                     /\ config.levers[i].id \notin resolved.hiddenIds
                     /\ visibleForLever(config.levers[i], resolved.selections)
                  THEN contribution(config.levers[i], r) ELSE Zero,
                  total(r, i + 1))
  IN  \A r \in RoleSet :
        accumulatedHours(config, resolved)[r] = QAdd(others[r], total(r, 1))

\* C23 (amended): as claimed, but the batches are counted only when n > 0: a number
\* lever without min whose value is zero or negative adds no per-batch hours.
C23_NumberLeverHoursOfPositiveBatches ==
  LET resolved == engineResolved(config, selections)
      numberIds == {config.levers[i].id : i \in
                      {j \in 1..Len(config.levers) : config.levers[j].type = "number"}}
      others == buildHours(cloneZeros, withoutContributions(config, numberIds).levers,
                           resolved.selections, resolved.hiddenIds, 1)
      units(lever) ==
        LET x == ToNumber(Coalesce(resolved.selections.vals[lever.id],
                                   Coalesce(lever.default, NumV(0))))
            low == IF isNull(lever.min) THEN Zero ELSE Num(lever.min.n)
            atLeast == IF ~isNull(lever.min) /\ QLt(x, Num(lever.min.n))
                       THEN Num(lever.min.n) ELSE x
        IN  IF isNaN(x) THEN low
            ELSE IF ~isNull(lever.max) /\ QLt(Num(lever.max.n), atLeast)
                 THEN Num(lever.max.n) ELSE atLeast
      entry(m, r) == IF r \in DOMAIN m THEN m[r] ELSE Zero
      contribution(lever, r) ==
        LET n == units(lever)
            batchSize == lever.hoursPerBatch.batchSize
        IN  QAdd(QAdd(QMul(entry(lever.hoursPerUnit, r), n),
                      QAdd(entry(lever.hoursBase, r),
                           IF QLt(One, n)
                           THEN QMul(entry(lever.hoursPerExtraLocale, r), QAdd(n, Num(-1)))
                           ELSE Zero)),
                 IF batchSize > 0 /\ (QLt(Zero, n))
                 THEN QMul(entry(lever.hoursPerBatch.hours, r),
                           Num(MathCeil(QMul(n, <<1, batchSize>>))))
                 ELSE Zero)
      RECURSIVE total(_, _)
      total(r, i) ==
        IF i > Len(config.levers) THEN Zero
        ELSE QAdd(IF /\ config.levers[i].type = "number"
                     /\ config.levers[i].id \notin resolved.hiddenIds
                     /\ visibleForLever(config.levers[i], resolved.selections)
                  THEN contribution(config.levers[i], r) ELSE Zero,
                  total(r, i + 1))
  IN  \A r \in RoleSet :
        accumulatedHours(config, resolved)[r] = QAdd(others[r], total(r, 1))

\* a lever declaring every rule kind holds a value that is at most minus one batch,
\* and a lever with a range holds a value above its max
C23_Witness ==
  /\ config.name = "options"
  /\ selections.vals["pages_unique"] = NumV(-2)
  /\ selections.vals["i18n_locales"] = NumV(5)
  /\ result.debug.preAdjustHours["frontend"] = Num(-4)
  /\ result.debug.preAdjustHours["content"] = Num(3)
  /\ result.debug.appliedMultipliers = NoEntries


\* C24: a visible select lever whose value matches none of its options accumulates the
\* hours of its first option; of the values selected on a multiselect lever, those that
\* match no option add nothing and the hours of the others are summed.
C24_UnmatchedOptions ==
  LET resolved == engineResolved(config, selections)
      optionIds == {config.levers[i].id : i \in
                      {j \in 1..Len(config.levers) : config.levers[j].type # "number"}}
      others == buildHours(cloneZeros, withoutContributions(config, optionIds).levers,
                           resolved.selections, resolved.hiddenIds, 1)
      optionHours(opt, r) == IF r \in DOMAIN opt.hours THEN OrZero(opt.hours[r]) ELSE Zero
      matching(lever, v) == {k \in 1..Len(lever.options) : lever.options[k].value = v}
      first(S) == CHOOSE k \in S : \A j \in S : k <= j
      selectHours(lever, r) ==
        LET value == resolved.selections.vals[lever.id]
            S == IF value.t = "str" THEN matching(lever, value.s) ELSE {}
        IN  IF S # {} THEN optionHours(lever.options[first(S)], r)
            ELSE IF Len(lever.options) > 0 THEN optionHours(lever.options[1], r)
            ELSE Zero
      RECURSIVE selectedHours(_, _, _, _)
      selectedHours(lever, arr, r, k) ==
        IF k > Len(arr) THEN Zero
        ELSE QAdd(IF matching(lever, arr[k]) # {}
                  THEN optionHours(lever.options[first(matching(lever, arr[k]))], r)
                  ELSE Zero,
                  selectedHours(lever, arr, r, k + 1))
      leverPart(lever, r) ==
        LET value == resolved.selections.vals[lever.id]
        IN  CASE lever.type = "select" -> selectHours(lever, r)
              [] lever.type = "multiselect" ->
                   selectedHours(lever, IF value.t = "arr" THEN value.a ELSE <<>>, r, 1)
              [] OTHER -> Zero
      RECURSIVE total(_, _)
      total(r, i) ==
        IF i > Len(config.levers) THEN Zero
        ELSE QAdd(IF /\ config.levers[i].id \notin resolved.hiddenIds
                     /\ visibleForLever(config.levers[i], resolved.selections)
                  THEN leverPart(config.levers[i], r) ELSE Zero,
                  total(r, i + 1))
  IN  \A r \in RoleSet :
        accumulatedHours(config, resolved)[r] = QAdd(others[r], total(r, 1))

\* the select holds a value that is none of its options, and the multiselect a value
\* that is none of its options beside one that is
C24_Witness ==
  /\ config.name = "options"
  /\ selections.vals["cms_choice"] = StrV("joomla")
  /\ selections.vals["integrations"] = ArrV(<<"ghost", "crm">>)
  /\ accumulatedHours(config, engineResolved(config, selections))["backend"] = Num(9)
  /\ result.debug.preAdjustHours["backend"] = <<99, 10>>


\* C25: every numeric output is rounded to the configured number of decimal places with
\* round-half-away-from-zero: a value halfway between two steps goes to the step farther
\* from zero, also when it is negative (-2.5 at 0 places gives -3, -0.25 at 1 place
\* gives -0.3). Stated for the hours and cost of the build roles, the subtotal of the
\* hours and the p50 band, from their unrounded values.
C25_RoundHalfAwayFromZero ==
  LET halfAway(x, places) ==
        IF isNaN(x) THEN NaN
        ELSE LET p == Pow10(places)
                 steps == (2 * Abs(x[1]) * p + x[2]) \div (2 * x[2])
             IN  Q(IF x[1] < 0 THEN -steps ELSE steps, p)
      hoursPlaces == hoursPlacesOf(config)
      moneyPlaces == moneyPlacesOf(config)
  IN  /\ halfAway(<<-5, 2>>, 0) = Num(-3) /\ halfAway(<<-1, 4>>, 1) = <<-3, 10>>
      /\ \A r \in BuildRoleSet :
           /\ result.hoursByRole[r] = halfAway(unroundedHours(result, r), hoursPlaces)
           /\ result.costByRole[r] =
                halfAway(QMul(unroundedHours(result, r), rateFor(config, selections, r)),
                         moneyPlaces)
      /\ result.subtotalHours = halfAway(buildSubtotalHours(result), hoursPlaces)
      /\ result.p50.hours = halfAway(unroundedP50Hours(config, result), hoursPlaces)
      /\ result.p50.cost =
           halfAway(unroundedP50Cost(config, selections, result), moneyPlaces)


\* C26: p50 carries no risk padding and is rounded once from unrounded parts:
\* p50.hours = round(S + S x pmPercentOfBuild + S x qaPercentOfBuild, hoursPrecision) and
\* p50.cost = round(C + pmCost + qaCost, currencyPrecision), S and C being the unrounded
\* hours and cost summed over the six build roles only; the risk level never changes p50.
C26_P50WithoutPadding ==
  /\ result.p50.hours = round(unroundedP50Hours(config, result), hoursPlacesOf(config))
  /\ result.p50.cost =
       round(unroundedP50Cost(config, selections, result), moneyPlacesOf(config))
  /\ \A level \in {"low", "medium", "high", "extreme"} :
       computeEstimate(config, withRisk(selections, level)).p50 = result.p50

\* a high risk level pads p80, and the p50 hours are not the sum of the rounded
\* subtotal and the rounded overheads
C26_Witness ==
  /\ riskLevelUsed(config, selections) = StrV("high")
  /\ result.p80.hours # result.p50.hours
  /\ result.p50.hours # Zero
  /\ result.p50.hours #
       QAdd(QAdd(result.subtotalHours, result.overheads.pmHours), result.overheads.qaHours)


\* C27: during dependency resolution hiddenIds only grows: an id hidden because a
\* dependency's condition held when it was evaluated in some pass stays in the returned
\* hiddenIds, also when a later adjust overwrites the selection so that the condition
\* does not hold on the returned selections; the returned set is the union of the hide
\* lists of the dependencies that fired in any pass.
C27_HiddenIdsOnlyGrow ==
  LET deps == config.dependencies
      passes == resolutionEnd(config, selections).passes
      \* the selections on which dependency i is evaluated in pass k
      seen(k, i) ==
        depPass([nthPass(config, selections, k - 1) EXCEPT !.changed = FALSE],
                SubSeq(deps, 1, i - 1), 1).selections
      fired(k, i) == StrictEq(seen(k, i).vals[deps[i].if.id], deps[i].if.equals)
  IN  /\ \A k \in 1..passes :
           nthPass(config, selections, k - 1).hiddenIds \subseteq
             nthPass(config, selections, k).hiddenIds
      /\ engineResolved(config, selections).hiddenIds =
           UNION {deps[i].hide : i \in {j \in 1..Len(deps) :
                                          \E k \in 1..passes : fired(k, j)}}
      /\ result.debug.hiddenLeverIds = engineResolved(config, selections).hiddenIds

\* cms_choice was hidden by a rule whose own adjust then changed cms_choice: on the
\* returned selections no rule's condition holds, and the id is still hidden
C27_Witness ==
  /\ Len(config.dependencies) > 0
  /\ selections.vals["cms_choice"] = StrV("none")
  /\ engineResolved(config, selections).selections.vals["cms_choice"] = StrV("headless")
  /\ \A i \in 1..Len(config.dependencies) :
       ~StrictEq(engineResolved(config, selections).selections.vals[
                   config.dependencies[i].if.id],
                 config.dependencies[i].if.equals)
  /\ "cms_choice" \in result.debug.hiddenLeverIds
  /\ result.hoursByRole["backend"] = Zero


\* C28: when the dependency rules have no cycle and no two rules force different values
\* on the same selection, applyDependencies returns a fixed point of the rules: every
\* rule whose condition holds on the returned selections has its hide ids hidden and its
\* adjusts in force, whatever the order of the rules in config.dependencies and however
\* long the chain of rules enabling one another.
C28_FixedPointOfAcyclicRules ==
  LET deps == config.dependencies
      rules == 1..Len(deps)
      forces(i, id, value) ==
        \E a \in 1..Len(deps[i].adjust) :
          deps[i].adjust[a].id = id /\ deps[i].adjust[a].set = value
      consistent ==
        \A i, j \in rules : \A a \in 1..Len(deps[i].adjust), b \in 1..Len(deps[j].adjust) :
          deps[i].adjust[a].id = deps[j].adjust[b].id =>
            deps[i].adjust[a].set = deps[j].adjust[b].set
      \* rule i enables rule j: it forces the value rule j's condition asks for
      enables == {p \in rules \X rules : forces(p[1], deps[p[2]].if.id, deps[p[2]].if.equals)}
      twice(R) == R \cup {p \in rules \X rules :
                            \E k \in rules : <<p[1], k>> \in R /\ <<k, p[2]>> \in R}
      reaches == twice(twice(twice(twice(enables))))
      acyclic == \A i \in rules : <<i, i>> \notin reaches
  IN  (consistent /\ acyclic) =>
        \A i \in rules : enforced(deps[i], engineResolved(config, selections))


\* C29: the page's dependency effect, which replaces the selections by
\* applyDependenciesUI(selections).selections whenever the two differ under
\* shallowEqual, eventually stops updating, whatever the selections and the dependency
\* list, cyclic ones included. The effect is a function of the selections, so it goes on
\* for ever exactly when some number of re-runs brings back selections it has replaced:
\* stated as no reachable selections being brought back by 1..MaxRules re-runs.
C29_EffectStabilises ==
  LET RECURSIVE rerun(_)
      rerun(k) ==
        IF k = 0 THEN selections
        ELSE CHOOSE t \in {applyDependenciesUI(config, s).selections :
                              s \in {rerun(k - 1)}} : TRUE
  IN  \A k \in 1..MaxRules :
        Synced(config, selections) \/ ~shallowEqual(rerun(k), selections)


\* C30: for a multiselect lever with maxSelected = m whose selection started from at most
\* m distinct values, after any sequence of option toggles the selection array holds at
\* most m values and none twice; toggling a selected option removes it, toggling an
\* unselected option while m values are selected leaves the array as it was, and
\* toggling an unselected option while fewer are selected appends it.
C30_MaxSelectedToggle ==
  \A i \in 1..Len(config.levers) :
    LET lever == config.levers[i]
        sel == selections.vals[lever.id]
        curr == IF sel.t = "arr" THEN sel.a ELSE <<>>
        distinct(a) == \A p, q \in 1..Len(a) : a[p] = a[q] => p = q
        members(a) == {a[p] : p \in 1..Len(a)}
    IN  (lever.type = "multiselect" /\ lever.maxSelected > 0) =>
          /\ Len(curr) <= lever.maxSelected
          /\ distinct(curr)
          /\ \A k \in 1..Len(lever.options) :
               LET value == lever.options[k].value
                   after == toggleOption(lever, selections, value).vals[lever.id]
               IN  /\ after.t = "arr"
                   /\ Len(after.a) <= lever.maxSelected
                   /\ distinct(after.a)
                   /\ value \in members(curr) =>
                        /\ value \notin members(after.a)
                        /\ after.a = SelectSeq(curr, LAMBDA x : x # value)
                   /\ (value \notin members(curr) /\ Len(curr) = lever.maxSelected) =>
                        after.a = curr
                   /\ (value \notin members(curr) /\ Len(curr) < lever.maxSelected) =>
                        after.a = Append(curr, value)

\* two toggles have filled the integrations lever (maxSelected 2): toggling "erp" would
\* add a third value, toggling "crm" or "pay" removes one
C30_Witness ==
  /\ config.name = "options"
  /\ selections.vals["integrations"] = ArrV(<<"crm", "pay">>)
  /\ toggleOption(config.levers[2], selections, "erp") = selections
  /\ toggleOption(config.levers[2], selections, "crm").vals["integrations"] = ArrV(<<"pay">>)

====
